---- MODULE Spec2Model ----
(***************************************************************************)
(* Model of the BoardGameGeek extraction / persistence pipeline:           *)
(*   - BGGDataExtractor.batch_extract_data and its semaphore-gated workers *)
(*   - BGGDataExtractor.get_complete_game_data and the five section fetches*)
(*   - DatabaseManager.save_game / save_flattened_game_data and            *)
(*     batch_save_games (upsert on bgg_id)                                 *)
(***************************************************************************)
EXTENDS Integers, Sequences, FiniteSets, TLC

\* ------------------------------------------------------------------------
\* Bounds of the model
\* ------------------------------------------------------------------------
MaxUrls == 3
MaxConc == 2
MaxCalls == 2
MaxRetries == 2
MaxBatch == 2
MaxClock == 1
MaxGames == 3
MaxLeaves == 3
MaxText == 4
MaxLines == 5
MaxRecords == 3
MaxPages == 2

\* ------------------------------------------------------------------------
\* Python values: every value is a tagged record.  A dict is an insertion-
\* ordered sequence of <<key, value>> pairs with pairwise distinct keys.
\* ------------------------------------------------------------------------
Leaf(t, v) == [type |-> t, val |-> v]
PyNone == Leaf("none", <<>>)
PyStr(s) == Leaf("str", <<s>>)
PyInt(s) == Leaf("int", <<s>>)
PyFloat(s) == Leaf("float", <<s>>)
PyList(xs) == Leaf("list", xs)
PyDict(items) == [type |-> "dict", val |-> items]
PyExc(msg) == Leaf("exc", <<msg>>)

DictKeys(items) == {items[n][1] : n \in 1..Len(items)}
DictHas(items, k) == \E n \in 1..Len(items) : items[n][1] = k
DictGet(items, k) == items[CHOOSE n \in 1..Len(items) : items[n][1] = k][2]

\* d[k] = v of a Python dict: overwrite in place, or append a new key
DictIndex(items, k) == CHOOSE n \in 1..Len(items) : items[n][1] = k
DictSet(items, k, v) ==
    IF DictHas(items, k)
    THEN LET n == DictIndex(items, k)
         IN SubSeq(items, 1, n - 1) \o << <<k, v>> >> \o SubSeq(items, n + 1, Len(items))
    ELSE Append(items, <<k, v>>)

IsErrorEntry(data) == DictKeys(data) = {"error"}
IsRecord(data) == DictHas(data, "url") /\ ~DictHas(data, "error")

\* dict.update(other).  (The accumulator is bound by a quantifier so that
\* it is evaluated once per step.)
RECURSIVE DictUpdate(_, _)
DictUpdate(items, other) ==
    IF Len(other) = 0 THEN items
    ELSE CHOOSE r \in {DictUpdate(acc, Tail(other)) :
                          acc \in {DictSet(items, other[1][1], other[1][2])}} : TRUE

\* ------------------------------------------------------------------------
\* get_complete_game_data: flatten_dict, normalize_res, record assembly
\* ------------------------------------------------------------------------
Sections == <<"title_and_year", "basic_info", "stats", "types", "categories_mechanics">>
NumSections == 5

\* the loop of flatten_dict over d.items(); acc is the dict `items`
RECURSIVE flatten_items(_, _, _)
flatten_items(items, parent_key, acc) ==
    IF Len(items) = 0 THEN acc
    ELSE LET k == items[1][1]
             v == items[1][2]
             new_key == IF parent_key # "" THEN parent_key \o "." \o k ELSE k
         IN CHOOSE r \in {flatten_items(Tail(items), parent_key, acc2) :
                acc2 \in {IF v.type = "dict"
                          THEN DictUpdate(acc, flatten_items(v.val, new_key, <<>>))
                          ELSE DictSet(acc, new_key, v)}} : TRUE

flatten_dict(d, parent_key) == flatten_items(d, parent_key, <<>>)

\* a gather result passed on as it came, exception objects included
normalize_res_keep(res) == res

\* an exception object is neither a dict nor a list, so it becomes {}
normalize_res(res) ==
    IF res.type = "exc" THEN PyDict(<<>>) ELSE res

\* a record whose url is stored with the title and year of the game
complete_game_data_url_in_title(url, results) ==
    flatten_dict(<< <<"title_and_year",
                      IF normalize_res(results[1]).type = "dict"
                      THEN PyDict(DictSet(normalize_res(results[1]).val, "url", PyStr(url)))
                      ELSE normalize_res(results[1])>>,
                    <<"basic_info", normalize_res(results[2])>>,
                    <<"stats", normalize_res(results[3])>>,
                    <<"types", normalize_res(results[4])>>,
                    <<"categories_mechanics", normalize_res(results[5])>> >>, "")

\* the record built from the five gathered results (title/year, basic info,
\* stats, types, categories/mechanics) of one url
complete_game_data(url, results) ==
    flatten_dict(<< <<"title_and_year", normalize_res(results[1])>>,
                    <<"url", PyStr(url)>>,
                    <<"basic_info", normalize_res(results[2])>>,
                    <<"stats", normalize_res(results[3])>>,
                    <<"types", normalize_res(results[4])>>,
                    <<"categories_mechanics", normalize_res(results[5])>> >>, "")

\* the empty default every section fetch returns from its except branch
EmptyDefault(s) ==
    CASE s = 1 -> PyDict(<< <<"title", PyNone>>, <<"year", PyNone>> >>)
      [] s = 2 -> PyDict(<< <<"min_players", PyNone>>, <<"max_players", PyNone>>,
                            <<"min_play_time", PyNone>>, <<"max_play_time", PyNone>>,
                            <<"min_age", PyNone>> >>)
      [] s = 3 -> PyDict(<<>>)
      [] s = 4 -> PyList(<<>>)
      [] s = 5 -> PyDict(<< <<"categories", PyList(<<>>)>>, <<"mechanics", PyList(<<>>)>> >>)

\* what a section fetch extracts from a page that carries all its elements
FullResult(s, url) ==
    CASE s = 1 -> PyDict(<< <<"title", PyStr("title of " \o url)>>, <<"year", PyStr("1995")>> >>)
      [] s = 2 -> PyDict(<< <<"min_players", PyInt("3")>>, <<"max_players", PyInt("4")>>,
                            <<"min_play_time", PyInt("60")>>, <<"max_play_time", PyInt("120")>>,
                            <<"min_age", PyInt("10")>> >>)
      [] s = 3 -> PyDict(<< <<"avg_rating", PyFloat("7.1")>>, <<"own", PyInt("1234")>> >>)
      [] s = 4 -> PyList(<<"Strategy of " \o url>>)
      [] s = 5 -> PyDict(<< <<"categories", PyList(<<"Economic">>)>>,
                            <<"mechanics", PyList(<<"Trading", "Dice">>)>> >>)

\* ------------------------------------------------------------------------
\* State
\* ------------------------------------------------------------------------
VARIABLES
    \* batch_extract_data
    urls,          \* the input list
    concurrency,   \* the semaphore's initial value
    delay,         \* delay_between_starts is non-zero
    mainpc,        \* position of batch_extract_data itself
    created,       \* number of worker tasks created so far
    wpc,           \* position of every worker task
    semValue,      \* sem._value
    waiters,       \* sem._waiters (worker indexes, in arrival order)
    gathered,      \* per worker: the five results handed back by gather
    raised,        \* workers whose get_complete_game_data raised
    taskResult,    \* per worker: what the task ended with
    doneQueue,     \* as_completed's queue of finished tasks
    ncollected,    \* number of pairs the collecting loop has consumed
    results,       \* the results dict (url -> data)
    \* one call of the worker body on given section results
    recUrl,        \* the url
    recCodes,      \* what each of the five section tasks ended with
    recpc,         \* "input" before the call, "done" after it
    recOut,        \* what the worker body evaluated to
    \* get_complete_game_data of one url, with its five section fetches
    eurl,          \* the url
    epc,           \* position of get_complete_game_data
    spc,           \* position of every section fetch
    navs,          \* per fetch: the wait_until of every page.goto so far
    nav1,          \* per fetch: how the networkidle attempt ended
    page,          \* per fetch: state of the page it created
    handled,       \* per fetch: its outer `except Exception` branch ran
    sres,          \* per fetch: the value it returned
    sexc,          \* per fetch: an exception left the fetch
    erec,          \* the flat record get_complete_game_data returned
    \* the public.bgg table and the save call in progress
    table,         \* the committed rows
    nextId,        \* next value of the id SERIAL sequence
    clock,         \* CURRENT_TIMESTAMP
    dbpc,          \* position of the save call in progress
    call,          \* its operation and arguments
    attempt,       \* loop variable of the retry loop
    sleeps,        \* number of time.sleep(delay) calls of this call
    txTable,       \* rows as seen inside the open transaction
    chunkAt,       \* batch_save_games: index i of the chunk loop
    ret,           \* what the last finished call returned
    savedOK,       \* bgg_ids whose save has succeeded at least once
    ncalls,        \* number of save calls made so far
    \* the command line program (main.py)
    argNumber,     \* args.number
    mstep,         \* position of the program
    topGames,      \* what get_urls returned (the urls, in order)
    connected,     \* DatabaseManager() has been called
    tableCreated,  \* create_flattened_games_table(): "no" before the call, then its outcome
    fetched,       \* get_urls() has been called
    logged,        \* the log lines written (of the ones the claims speak of)
    exitStatus,    \* exit status of the process (-1 while it runs)
    \* one call of a helper function (flatten_dict, _extract_numeric_value, ...)
    fleaves,       \* flatten_dict: the leaves of the input, <<path, value>> pairs
    fin,           \* the argument
    fpc,           \* "input" before the call, "done" after it
    fout           \* what the call returned

batchVars == <<urls, concurrency, delay, mainpc, created, wpc, semValue, waiters,
               gathered, raised, taskResult, doneQueue, ncollected, results>>
recVars == <<recUrl, recCodes, recpc, recOut>>
entVars == <<eurl, epc, spc, navs, nav1, page, handled, sres, sexc, erec>>

dbVars == <<table, nextId, clock, dbpc, call, attempt, sleeps, txTable, chunkAt,
            ret, savedOK, ncalls>>

mainVars == <<argNumber, mstep, topGames, connected, tableCreated, fetched, logged,
              exitStatus>>
flatVars == <<fleaves, fin, fpc, fout>>
otherVars == <<mainVars, flatVars>>

vars == <<batchVars, recVars, entVars, dbVars, otherVars>>

Urls == {"u1", "u2"}

\* sequences over S of length at most n
SeqsUpTo(S, n) == UNION {[1..m -> S] : m \in 0..n}

Range(f) == {f[x] : x \in DOMAIN f}

Workers == 1..Len(urls)

\* ------------------------------------------------------------------------
\* asyncio.Semaphore (the admission gate of batch_extract_data)
\* ------------------------------------------------------------------------
\* a gate that admits one caller too many: it closes only below zero
locked_below_zero(value, ws) == value < 0

\* Semaphore.locked(): no permit, or some waiter is queued
locked(value, ws) == value = 0 \/ Len(ws) > 0

\* a wake-up that serves the waiter queued last
wake_up_last(value, ws, pcs) ==
    IF \E n \in 1..Len(ws) : pcs[ws[n]] = "waiting"
    THEN LET n == CHOOSE m \in 1..Len(ws) :
                      /\ pcs[ws[m]] = "waiting"
                      /\ \A l \in (m+1)..Len(ws) : pcs[ws[l]] # "waiting"
         IN <<value - 1, [pcs EXCEPT ![ws[n]] = "woken"]>>
    ELSE <<value, pcs>>

\* Semaphore._wake_up_next(): hand a permit to the first waiter whose future
\* is not done yet; returns the new <<value, pcs>>
wake_up_next(value, ws, pcs) ==
    IF \E n \in 1..Len(ws) : pcs[ws[n]] = "waiting"
    THEN LET n == CHOOSE m \in 1..Len(ws) :
                      /\ pcs[ws[m]] = "waiting"
                      /\ \A l \in 1..(m-1) : pcs[ws[l]] # "waiting"
         IN <<value - 1, [pcs EXCEPT ![ws[n]] = "woken"]>>
    ELSE <<value, pcs>>

\* a release that returns the permit and wakes nobody
release_no_wake(value, ws, pcs) == <<value + 1, pcs>>

\* Semaphore.release()
release(value, ws, pcs) == wake_up_next(value + 1, ws, pcs)

RemoveFirst(ws, i) ==
    LET n == CHOOSE m \in 1..Len(ws) : ws[m] = i /\ \A l \in 1..(m-1) : ws[l] # i
    IN SubSeq(ws, 1, n - 1) \o SubSeq(ws, n + 1, Len(ws))

\* ------------------------------------------------------------------------
\* batch_extract_data
\* ------------------------------------------------------------------------
\* what the gather of one entity can hand back, as one code per section:
\* "full" (the section's values), "default" (its empty default), "exc" (an
\* exception object)
OutcomeCodes == {"full", "default", "exc"}

\* the batch level carries one such outcome, with all three codes in it
GatherOutcomes ==
    { <<"full", "full", "default", "exc", "full">> }

SectionValue(code, s, url) ==
    CASE code = "full" -> FullResult(s, url)
      [] code = "default" -> EmptyDefault(s)
      [] code = "exc" -> PyExc("section failed")

SectionValues(codes, url) ==
    << SectionValue(codes[1], 1, url), SectionValue(codes[2], 2, url),
       SectionValue(codes[3], 3, url), SectionValue(codes[4], 4, url),
       SectionValue(codes[5], 5, url) >>

\* str(e) of the exception get_complete_game_data raised for a url
ExcText(url) == "boom " \o url

\* a worker without the try/except: the exception ends the task
worker_result_uncaught(url, data, exc) ==
    IF exc = "" THEN [kind |-> "pair", url |-> url, data |-> data]
    ELSE [kind |-> "exc", url |-> url, data |-> <<>>]

\* what the body of worker() evaluates to: the returned pair, or the
\* exception the task ends with.  exc = "" when get_complete_game_data
\* returned data, else str(e) of what it raised.
worker_result(url, data, exc) ==
    IF exc = "" THEN [kind |-> "pair", url |-> url, data |-> data]
    ELSE [kind |-> "pair", url |-> url, data |-> << <<"error", PyStr(exc)>> >>]

NoResult == [kind |-> "none", url |-> "", data |-> <<>>]

InitBatch ==
    /\ urls \in SeqsUpTo(Urls, MaxUrls)
    /\ concurrency \in 1..MaxConc
    /\ delay \in BOOLEAN
    /\ mainpc = "create"
    /\ created = 0
    /\ wpc = [i \in 1..Len(urls) |-> "uncreated"]
    /\ semValue = concurrency
    /\ waiters = <<>>
    /\ gathered = [i \in 1..Len(urls) |-> <<>>]
    /\ raised = {}
    /\ taskResult = [i \in 1..Len(urls) |-> NoResult]
    /\ doneQueue = <<>>
    /\ ncollected = 0
    /\ results = <<>>

\* tasks.append(asyncio.create_task(worker(u))), then the optional sleep
MainCreate ==
    /\ mainpc = "create"
    /\ created < Len(urls)
    /\ created' = created + 1
    /\ wpc' = [wpc EXCEPT ![created + 1] = "created"]
    /\ mainpc' = IF delay THEN "sleep" ELSE "create"
    /\ UNCHANGED <<urls, concurrency, delay, semValue, waiters, gathered, raised,
                   taskResult, doneQueue, ncollected, results, recVars, entVars, dbVars, otherVars>>

\* asyncio.sleep(delay_between_starts) is over
MainWake ==
    /\ mainpc = "sleep"
    /\ mainpc' = "create"
    /\ UNCHANGED <<urls, concurrency, delay, created, wpc, semValue, waiters,
                   gathered, raised, taskResult, doneQueue, ncollected, results, recVars, entVars, dbVars, otherVars>>

\* the for loop over urls is exhausted: start iterating as_completed(tasks)
MainStartCollect ==
    /\ mainpc = "create"
    /\ created = Len(urls)
    /\ mainpc' = "collect"
    /\ UNCHANGED <<urls, concurrency, delay, created, wpc, semValue, waiters,
                   gathered, raised, taskResult, doneQueue, ncollected, results, recVars, entVars, dbVars, otherVars>>

\* the main coroutine is suspended, so the event loop runs worker tasks
MainSuspended == mainpc \in {"sleep", "collect"}

\* first step of a worker task: async with sem -> sem.acquire().
\* The event loop starts tasks in the order they were created.
WorkerStart(i) ==
    /\ MainSuspended
    /\ wpc[i] = "created"
    /\ \A j \in 1..(i-1) : wpc[j] # "created"
    /\ IF ~locked(semValue, waiters)
       THEN /\ semValue' = semValue - 1
            /\ wpc' = [wpc EXCEPT ![i] = "entered"]
            /\ UNCHANGED waiters
       ELSE /\ waiters' = Append(waiters, i)
            /\ wpc' = [wpc EXCEPT ![i] = "waiting"]
            /\ UNCHANGED semValue
    /\ UNCHANGED <<urls, concurrency, delay, mainpc, created, gathered, raised,
                   taskResult, doneQueue, ncollected, results, recVars, entVars, dbVars, otherVars>>

\* a waiter whose future was set resumes inside acquire()
WorkerResume(i) ==
    /\ MainSuspended
    /\ wpc[i] = "woken"
    /\ LET ws == RemoveFirst(waiters, i)
           pcs == [wpc EXCEPT ![i] = "entered"]
           w == IF semValue > 0 THEN wake_up_next(semValue, ws, pcs)
                ELSE <<semValue, pcs>>
       IN /\ waiters' = ws
          /\ semValue' = w[1]
          /\ wpc' = w[2]
    /\ UNCHANGED <<urls, concurrency, delay, mainpc, created, gathered, raised,
                   taskResult, doneQueue, ncollected, results, recVars, entVars, dbVars, otherVars>>

\* get_complete_game_data: the rate-limit sleep is over, the five section
\* tasks are created and gather is awaited
WorkerDispatch(i) ==
    /\ MainSuspended
    /\ wpc[i] = "entered"
    /\ wpc' = [wpc EXCEPT ![i] = "gathering"]
    /\ UNCHANGED <<urls, concurrency, delay, mainpc, created, semValue, waiters,
                   gathered, raised, taskResult, doneQueue, ncollected, results, recVars, entVars, dbVars, otherVars>>

\* a worker that stores its outcome in the shared mapping itself
WorkerLeave_writes_results(i, res) ==
    LET w == release(semValue, waiters, [wpc EXCEPT ![i] = "done"])
    IN /\ semValue' = w[1]
       /\ wpc' = w[2]
       /\ taskResult' = [taskResult EXCEPT ![i] = res]
       /\ doneQueue' = Append(doneQueue, i)
       /\ results' = DictSet(results, res.url, res.data)
       /\ UNCHANGED <<urls, concurrency, delay, mainpc, created, waiters,
                      ncollected, recVars, entVars, dbVars, otherVars>>

\* the worker leaves the gated block with what its body evaluated to: the
\* permit is released and the finished task is queued for as_completed
WorkerLeave(i, res) ==
    LET w == release(semValue, waiters, [wpc EXCEPT ![i] = "done"])
    IN /\ semValue' = w[1]
       /\ wpc' = w[2]
       /\ taskResult' = [taskResult EXCEPT ![i] = res]
       /\ doneQueue' = Append(doneQueue, i)
       /\ UNCHANGED <<urls, concurrency, delay, mainpc, created, waiters,
                      ncollected, results, recVars, entVars, dbVars, otherVars>>

\* gather returns, the record is flattened and returned: return url, data
WorkerReturn(i) ==
    /\ MainSuspended
    /\ wpc[i] = "gathering"
    /\ \E o \in GatherOutcomes :
          LET rs == SectionValues(o, urls[i])
          IN /\ gathered' = [gathered EXCEPT ![i] = rs]
             /\ WorkerLeave(i, worker_result(urls[i], complete_game_data(urls[i], rs), ""))
    /\ UNCHANGED raised

\* a worker whose exception path ends the task without leaving the gated
\* block: the permit is not given back
WorkerRaise_keeps_permit(i) ==
    /\ MainSuspended
    /\ wpc[i] \in {"entered", "gathering"}
    /\ raised' = raised \cup {i}
    /\ wpc' = [wpc EXCEPT ![i] = "done"]
    /\ taskResult' = [taskResult EXCEPT ![i] = worker_result(urls[i], <<>>, ExcText(urls[i]))]
    /\ doneQueue' = Append(doneQueue, i)
    /\ UNCHANGED <<urls, concurrency, delay, mainpc, created, semValue, waiters, gathered,
                   ncollected, results, recVars, entVars, dbVars, otherVars>>

\* get_complete_game_data raises an Exception inside the worker's try block
WorkerRaise(i) ==
    /\ MainSuspended
    /\ wpc[i] \in {"entered", "gathering"}
    /\ raised' = raised \cup {i}
    /\ WorkerLeave(i, worker_result(urls[i], <<>>, ExcText(urls[i])))
    /\ UNCHANGED gathered

\* a collecting loop that keeps records only and skips error entries
MainCollect_records_only ==
    /\ mainpc = "collect"
    /\ ncollected < Len(doneQueue)
    /\ LET res == taskResult[doneQueue[ncollected + 1]]
       IN results' = IF IsRecord(res.data) THEN DictSet(results, res.url, res.data)
                     ELSE results
    /\ ncollected' = ncollected + 1
    /\ UNCHANGED <<urls, concurrency, delay, mainpc, created, wpc, semValue,
                   waiters, gathered, raised, taskResult, doneQueue, recVars, entVars, dbVars, otherVars>>

\* a collecting loop that pairs the outcomes with the input by position:
\* for u, coro in zip(urls, asyncio.as_completed(tasks)): results[u] = data
MainCollect_by_position ==
    /\ mainpc = "collect"
    /\ ncollected < Len(doneQueue)
    /\ LET res == taskResult[doneQueue[ncollected + 1]]
       IN results' = DictSet(results, urls[ncollected + 1], res.data)
    /\ ncollected' = ncollected + 1
    /\ UNCHANGED <<urls, concurrency, delay, mainpc, created, wpc, semValue,
                   waiters, gathered, raised, taskResult, doneQueue, recVars, entVars, dbVars, otherVars>>

\* for coro in asyncio.as_completed(tasks): url, data = await coro; results[url] = data
\* (awaiting a task that ended with an exception re-raises it here)
MainCollect ==
    /\ mainpc = "collect"
    /\ ncollected < Len(doneQueue)
    /\ LET res == taskResult[doneQueue[ncollected + 1]]
       IN IF res.kind = "pair"
          THEN /\ results' = DictSet(results, res.url, res.data)
               /\ UNCHANGED mainpc
          ELSE /\ mainpc' = "raised"
               /\ UNCHANGED results
    /\ ncollected' = ncollected + 1
    /\ UNCHANGED <<urls, concurrency, delay, created, wpc, semValue,
                   waiters, gathered, raised, taskResult, doneQueue, recVars, entVars, dbVars, otherVars>>

\* return results
MainReturn ==
    /\ mainpc = "collect"
    /\ ncollected = Len(urls)
    /\ mainpc' = "returned"
    /\ UNCHANGED <<urls, concurrency, delay, created, wpc, semValue, waiters,
                   gathered, raised, taskResult, doneQueue, ncollected, results, recVars, entVars, dbVars, otherVars>>

\* ------------------------------------------------------------------------
\* The worker body as a function of what the five section tasks ended with
\* ------------------------------------------------------------------------
NoValue == Leaf("unset", <<>>)

IdleBatch ==
    /\ urls = <<>>
    /\ concurrency = 1
    /\ delay = FALSE
    /\ mainpc = "idle"
    /\ created = 0
    /\ wpc = <<>>
    /\ semValue = 1
    /\ waiters = <<>>
    /\ gathered = <<>>
    /\ raised = {}
    /\ taskResult = <<>>
    /\ doneQueue = <<>>
    /\ ncollected = 0
    /\ results = <<>>

IdleRecord ==
    /\ recUrl = ""
    /\ recCodes = <<>>
    /\ recpc = "idle"
    /\ recOut = NoResult

IdleEntity ==
    /\ eurl = ""
    /\ epc = "idle"
    /\ spc = <<>>
    /\ navs = <<>>
    /\ nav1 = <<>>
    /\ page = <<>>
    /\ handled = <<>>
    /\ sres = <<>>
    /\ sexc = <<>>
    /\ erec = <<>>

NoCall == [op |-> "none"]

IdleDb ==
    /\ table = {}
    /\ nextId = 1
    /\ clock = 0
    /\ dbpc = "off"
    /\ call = NoCall
    /\ attempt = 0
    /\ sleeps = 0
    /\ txTable = {}
    /\ chunkAt = 0
    /\ ret = "none"
    /\ savedOK = {}
    /\ ncalls = 0

IdleMain ==
    /\ argNumber = 0
    /\ mstep = "off"
    /\ topGames = <<>>
    /\ connected = FALSE
    /\ tableCreated = "no"
    /\ fetched = FALSE
    /\ logged = {}
    /\ exitStatus = -1

IdleFlatten ==
    /\ fleaves = {}
    /\ fin = <<>>
    /\ fpc = "idle"
    /\ fout = <<>>

IdleOther == IdleMain /\ IdleFlatten

InitRecord ==
    /\ recUrl \in Urls
    /\ recCodes \in [1..NumSections -> OutcomeCodes]
    /\ recpc = "input"
    /\ recOut = NoResult
    /\ IdleBatch /\ IdleEntity /\ IdleDb /\ IdleOther

\* data = await self.get_complete_game_data(url); return url, data
\* with the section tasks ending as recCodes says
RecordBuild ==
    /\ recpc = "input"
    /\ recOut' = worker_result(recUrl,
                     complete_game_data(recUrl, SectionValues(recCodes, recUrl)), "")
    /\ recpc' = "done"
    /\ UNCHANGED <<recUrl, recCodes, batchVars, entVars, dbVars, otherVars>>

NextRecord == RecordBuild

SpecRecord == InitRecord /\ [][NextRecord]_vars

\* ------------------------------------------------------------------------
\* The five section fetches of one get_complete_game_data call.
\* Section numbers follow Sections: 1 get_title_and_year, 2 get_game_basic_info,
\* 3 get_game_stats, 4 get_game_types, 5 get_game_categories_and_mechanics.
\* ------------------------------------------------------------------------
SectionIds == 1..NumSections

\* how an awaited Playwright call can end
CallOutcomes == {"ok", "timeout", "error"}

\* a fallback on any failure of the first navigation
goto_fallback_any(outcome) == outcome # "ok"

\* `except PlaywrightTimeoutError:` around the networkidle goto: only a
\* timeout is retried with domcontentloaded
goto_fallback(outcome) == outcome = "timeout"

\* the fetches that wait for an anchor selector after navigating
waits_for_selector(s) == s \in {1, 2, 3, 4}

\* the fetches that close the page and return their empty value when the
\* anchor selector is missing (get_game_stats, get_game_types)
returns_when_absent(s) == s \in {3, 4}

\* a handler that logs and re-raises
fetch_except_reraise(s) == [result |-> NoValue, raises |-> TRUE]

\* the outer `except Exception as e:` of a fetch: log and return the empty
\* default; nothing is re-raised
fetch_except(s) == [result |-> EmptyDefault(s), raises |-> FALSE]

\* what the extraction code builds from a page on which only some of the
\* elements are found (or, for stats, one item failed and was skipped)
PartialResult(s, url) ==
    CASE s = 1 -> PyDict(<< <<"title", PyStr("title of " \o url)>>, <<"year", PyNone>> >>)
      [] s = 2 -> PyDict(<< <<"min_players", PyInt("2")>>, <<"max_players", PyInt("2")>>,
                            <<"min_play_time", PyNone>>, <<"max_play_time", PyNone>>,
                            <<"min_age", PyNone>> >>)
      [] s = 3 -> PyDict(<< <<"avg_rating", PyFloat("7.1")>> >>)
      [] s = 4 -> PyList(<<>>)
      [] s = 5 -> PyDict(<< <<"categories", PyList(<<"Economic">>)>>,
                            <<"mechanics", PyList(<<>>)>> >>)

Extracted(content, s, url) ==
    IF content = "full" THEN FullResult(s, url) ELSE PartialResult(s, url)

InitEntity ==
    /\ eurl = "u1"
    /\ epc = "sleep"
    /\ spc = [s \in SectionIds |-> "unstarted"]
    /\ navs = [s \in SectionIds |-> <<>>]
    /\ nav1 = [s \in SectionIds |-> "none"]
    /\ page = [s \in SectionIds |-> "none"]
    /\ handled = [s \in SectionIds |-> FALSE]
    /\ sres = [s \in SectionIds |-> NoValue]
    /\ sexc = [s \in SectionIds |-> FALSE]
    /\ erec = <<>>
    /\ IdleBatch /\ IdleRecord /\ IdleDb /\ IdleOther

\* await asyncio.sleep(0.05) is over: the five tasks are created and
\* gather is awaited
Dispatch ==
    /\ epc = "sleep"
    /\ epc' = "gather"
    /\ spc' = [s \in SectionIds |-> "start"]
    /\ UNCHANGED <<eurl, navs, nav1, page, handled, sres, sexc, erec, batchVars, recVars, dbVars, otherVars>>

\* an exception reaches the outer handler of fetch s: the fetch ends with
\* what the handler yields; the page is left as it is
FetchFails(s) ==
    /\ spc' = [spc EXCEPT ![s] = "done"]
    /\ handled' = [handled EXCEPT ![s] = TRUE]
    /\ sres' = [sres EXCEPT ![s] = fetch_except(s).result]
    /\ sexc' = [sexc EXCEPT ![s] = fetch_except(s).raises]

\* page = await self.context.new_page()
FetchNewPage(s) ==
    /\ epc = "gather"
    /\ spc[s] = "start"
    /\ \E ok \in BOOLEAN :
          IF ok
          THEN /\ page' = [page EXCEPT ![s] = "open"]
               /\ spc' = [spc EXCEPT ![s] = "goto1"]
               /\ UNCHANGED <<handled, sres, sexc>>
          ELSE FetchFails(s) /\ UNCHANGED page
    /\ UNCHANGED <<eurl, epc, navs, nav1, erec, batchVars, recVars, dbVars, otherVars>>

AfterNavigation(s) == IF waits_for_selector(s) THEN "wait" ELSE "extract"

\* await page.goto(url, wait_until="networkidle", timeout=self.timeout)
FetchGotoNetworkIdle(s) ==
    /\ epc = "gather"
    /\ spc[s] = "goto1"
    /\ navs' = [navs EXCEPT ![s] = Append(@, "networkidle")]
    /\ \E out \in CallOutcomes :
          /\ nav1' = [nav1 EXCEPT ![s] = out]
          /\ IF out = "ok"
             THEN /\ spc' = [spc EXCEPT ![s] = AfterNavigation(s)]
                  /\ UNCHANGED <<handled, sres, sexc>>
             ELSE IF goto_fallback(out)
             THEN /\ spc' = [spc EXCEPT ![s] = "goto2"]
                  /\ UNCHANGED <<handled, sres, sexc>>
             ELSE FetchFails(s)
    /\ UNCHANGED <<eurl, epc, page, erec, batchVars, recVars, dbVars, otherVars>>

\* await page.goto(url, wait_until="domcontentloaded", timeout=self.timeout)
FetchGotoDomContentLoaded(s) ==
    /\ epc = "gather"
    /\ spc[s] = "goto2"
    /\ navs' = [navs EXCEPT ![s] = Append(@, "domcontentloaded")]
    /\ \E out \in CallOutcomes :
          IF out = "ok"
          THEN /\ spc' = [spc EXCEPT ![s] = AfterNavigation(s)]
               /\ UNCHANGED <<handled, sres, sexc>>
          ELSE FetchFails(s)
    /\ UNCHANGED <<eurl, epc, nav1, page, erec, batchVars, recVars, dbVars, otherVars>>

\* await page.wait_for_selector(anchor, state="attached", ...)
\* On a timeout get_game_stats and get_game_types close the page and
\* return their empty value; the other fetches go on.
FetchWaitForSelector(s) ==
    /\ epc = "gather"
    /\ spc[s] = "wait"
    /\ \E out \in CallOutcomes, closed \in BOOLEAN :
          IF out = "ok" \/ (out = "timeout" /\ ~returns_when_absent(s))
          THEN /\ spc' = [spc EXCEPT ![s] = "extract"]
               /\ UNCHANGED <<page, handled, sres, sexc>>
          ELSE IF out = "timeout" /\ closed
          THEN /\ page' = [page EXCEPT ![s] = "closed"]
               /\ spc' = [spc EXCEPT ![s] = "done"]
               /\ sres' = [sres EXCEPT ![s] = EmptyDefault(s)]
               /\ UNCHANGED <<handled, sexc>>
          ELSE FetchFails(s) /\ UNCHANGED page
    /\ UNCHANGED <<eurl, epc, navs, nav1, erec, batchVars, recVars, dbVars, otherVars>>

\* the selector queries of the fetch, then await page.close() and return.
\* get_game_basic_info only queries through _safe_query_selector, which
\* never raises.
FetchExtract(s) ==
    /\ epc = "gather"
    /\ spc[s] = "extract"
    /\ \E content \in {"full", "partial", "error"}, closed \in BOOLEAN :
          /\ content = "error" => s # 2
          /\ IF content # "error" /\ closed
             THEN /\ page' = [page EXCEPT ![s] = "closed"]
                  /\ spc' = [spc EXCEPT ![s] = "done"]
                  /\ sres' = [sres EXCEPT ![s] = Extracted(content, s, eurl)]
                  /\ UNCHANGED <<handled, sexc>>
             ELSE FetchFails(s) /\ UNCHANGED page
    /\ UNCHANGED <<eurl, epc, navs, nav1, erec, batchVars, recVars, dbVars, otherVars>>

\* what gather(..., return_exceptions=True) hands back for fetch s
\* asyncio.gather (variant: the wait ends with the first task that is done)
gather_first_completed == \E s \in SectionIds : spc[s] = "done"

\* results = await asyncio.gather(..., return_exceptions=True): the await
\* ends when each of the five tasks is done
gather_done == \A s \in SectionIds : spc[s] = "done"

GatherResult(s) == IF sexc[s] THEN PyExc("section failed") ELSE sres[s]

\* gather returns once all five tasks are done; the results are
\* normalized, flattened and returned
Gather ==
    /\ epc = "gather"
    /\ gather_done
    /\ erec' = complete_game_data(eurl, << GatherResult(1), GatherResult(2),
                   GatherResult(3), GatherResult(4), GatherResult(5) >>)
    /\ epc' = "returned"
    /\ UNCHANGED <<eurl, spc, navs, nav1, page, handled, sres, sexc, batchVars, recVars, dbVars, otherVars>>

NextEntity ==
    \/ Dispatch
    \/ \E s \in SectionIds : FetchNewPage(s)
    \/ \E s \in SectionIds : FetchGotoNetworkIdle(s)
    \/ \E s \in SectionIds : FetchGotoDomContentLoaded(s)
    \/ \E s \in SectionIds : FetchWaitForSelector(s)
    \/ \E s \in SectionIds : FetchExtract(s)
    \/ Gather

SpecEntity == InitEntity /\ [][NextEntity]_vars

\* ------------------------------------------------------------------------
\* The public.bgg table and its upsert
\* ------------------------------------------------------------------------
\* urls as character sequences
UrlGame1 == <<"/", "b", "o", "a", "r", "d", "g", "a", "m", "e", "/", "1", "/", "a">>
UrlGame1b == <<"/", "b", "o", "a", "r", "d", "g", "a", "m", "e", "/", "1", "/", "z">>
UrlGame2 == <<"/", "b", "o", "a", "r", "d", "g", "a", "m", "e", "/", "2", "/", "b">>
UrlNoId == <<"/", "b", "o", "a", "r", "d", "g", "a", "m", "e", "/", "1", "2">>
DbUrls == {UrlGame1, UrlGame1b, UrlGame2}

SqlNull == "NULL"

\* a plain INSERT into a table without the unique constraint on bgg_id
insert_only(rows, flat, id, now) ==
    IF flat.title = SqlNull
    THEN [ok |-> FALSE, rows |-> rows]
    ELSE [ok |-> TRUE,
          rows |-> rows \cup {[id |-> id, bgg_id |-> flat.bgg_id, title |-> flat.title,
                               url |-> flat.url, cols |-> flat.cols,
                               created_at |-> now, updated_at |-> now]}]

\* ON CONFLICT (bgg_id) DO NOTHING: the existing row is kept as it is
upsert_do_nothing(rows, flat, id, now) ==
    IF \E r \in rows : r.bgg_id = flat.bgg_id
    THEN [ok |-> flat.title # SqlNull, rows |-> rows]
    ELSE insert_only(rows, flat, id, now)

\* a DO UPDATE SET list without updated_at
upsert_keep_timestamp(rows, flat, id, now) ==
    IF flat.title # SqlNull /\ \E r \in rows : r.bgg_id = flat.bgg_id
    THEN [ok |-> TRUE,
          rows |-> {IF r.bgg_id = flat.bgg_id
                    THEN [r EXCEPT !.title = flat.title, !.cols = flat.cols]
                    ELSE r : r \in rows}]
    ELSE upsert_do_nothing(rows, flat, id, now)

\* a DO UPDATE SET list that also has url = EXCLUDED.url
upsert_overwrite_url(rows, flat, id, now) ==
    IF flat.title # SqlNull /\ \E r \in rows : r.bgg_id = flat.bgg_id
    THEN [ok |-> TRUE,
          rows |-> {IF r.bgg_id = flat.bgg_id
                    THEN [r EXCEPT !.title = flat.title, !.cols = flat.cols,
                                   !.url = flat.url, !.updated_at = now]
                    ELSE r : r \in rows}]
    ELSE upsert_do_nothing(rows, flat, id, now)

\* the statement against a table whose url column is not UNIQUE
upsert_url_not_unique(rows, flat, id, now) ==
    IF flat.title = SqlNull
    THEN [ok |-> FALSE, rows |-> rows]
    ELSE IF \E r \in rows : r.bgg_id = flat.bgg_id
    THEN [ok |-> TRUE,
          rows |-> {IF r.bgg_id = flat.bgg_id
                    THEN [r EXCEPT !.title = flat.title, !.cols = flat.cols,
                                   !.updated_at = now]
                    ELSE r : r \in rows}]
    ELSE [ok |-> TRUE,
          rows |-> rows \cup {[id |-> id, bgg_id |-> flat.bgg_id, title |-> flat.title,
                               url |-> flat.url, cols |-> flat.cols,
                               created_at |-> now, updated_at |-> now]}]

\* INSERT INTO public.bgg (...) VALUES (...) ON CONFLICT (bgg_id) DO UPDATE
\* SET <every column but id, bgg_id, url, created_at>, updated_at = now,
\* against the constraints of CREATE TABLE: bgg_id UNIQUE, url UNIQUE NOT
\* NULL, title NOT NULL.  Yields whether the statement succeeded and the
\* rows after it.
upsert(rows, flat, id, now) ==
    IF flat.title = SqlNull
    THEN [ok |-> FALSE, rows |-> rows]
    ELSE IF \E r \in rows : r.bgg_id = flat.bgg_id
    THEN [ok |-> TRUE,
          rows |-> {IF r.bgg_id = flat.bgg_id
                    THEN [r EXCEPT !.title = flat.title, !.cols = flat.cols,
                                   !.updated_at = now]
                    ELSE r : r \in rows}]
    ELSE IF \E r \in rows : r.url = flat.url
    THEN [ok |-> FALSE, rows |-> rows]
    ELSE [ok |-> TRUE,
          rows |-> rows \cup {[id |-> id, bgg_id |-> flat.bgg_id, title |-> flat.title,
                               url |-> flat.url, cols |-> flat.cols,
                               created_at |-> now, updated_at |-> now]}]

\* id SERIAL: the number of values of the sequence a statement used for rows
\* it inserted (values drawn by statements that insert nothing leave gaps
\* in the sequence, which nothing reads)
inserted(rows, u) == Cardinality(u.rows) - Cardinality(rows)

\* conn.execute(sql, batch): the statement is executed once per record, in
\* order, until one fails
RECURSIVE execute_many(_, _, _, _)
execute_many(rows, flats, id, now) ==
    IF Len(flats) = 0 THEN [ok |-> TRUE, rows |-> rows]
    ELSE LET u == upsert(rows, flats[1], id, now)
         IN IF ~u.ok THEN [ok |-> FALSE, rows |-> rows]
            ELSE execute_many(u.rows, Tail(flats), id + inserted(rows, u), now)

\* ------------------------------------------------------------------------
\* DatabaseManager._extract_bgg_id: re.search(r'/boardgame/(\d+)/', url)
\* ------------------------------------------------------------------------
Digits == <<"0", "1", "2", "3", "4", "5", "6", "7", "8", "9">>
IsDigit(c) == \E d \in 1..10 : Digits[d] = c
DigitValue(c) == (CHOOSE d \in 1..10 : Digits[d] = c) - 1

BoardgamePrefix == <<"/", "b", "o", "a", "r", "d", "g", "a", "m", "e", "/">>

\* length of the run of digits of url that starts at position q
RECURSIVE digit_run(_, _)
digit_run(url, q) ==
    IF q <= Len(url) /\ IsDigit(url[q]) THEN 1 + digit_run(url, q + 1) ELSE 0

\* int() of a string of digits
RECURSIVE to_int(_)
to_int(ds) ==
    IF Len(ds) = 0 THEN 0
    ELSE 10 * to_int(SubSeq(ds, 1, Len(ds) - 1)) + DigitValue(ds[Len(ds)])

\* the pattern matches at position p
matches_at(url, p) ==
    /\ p + Len(BoardgamePrefix) - 1 <= Len(url)
    /\ SubSeq(url, p, p + Len(BoardgamePrefix) - 1) = BoardgamePrefix
    /\ LET q == p + Len(BoardgamePrefix)
           n == digit_run(url, q)
       IN n >= 1 /\ q + n <= Len(url) /\ url[q + n] = "/"

\* the id of the leftmost match; found = FALSE stands for None
extract_bgg_id(url) ==
    IF \E p \in 1..Len(url) : matches_at(url, p)
    THEN LET p == CHOOSE m \in 1..Len(url) :
                      matches_at(url, m) /\ \A l \in 1..(m-1) : ~matches_at(url, l)
             q == p + Len(BoardgamePrefix)
         IN [found |-> TRUE, id |-> to_int(SubSeq(url, q, q + digit_run(url, q) - 1))]
    ELSE [found |-> FALSE, id |-> 0]

\* ------------------------------------------------------------------------
\* save_game, save_flattened_game_data, batch_save_games
\* ------------------------------------------------------------------------
\* a Game object (title and url are non-null strings; cols stands for the
\* remaining columns, which the statement treats alike)
Game(title, url, cols) == [title |-> title, url |-> url, cols |-> cols]

\* (bgg_id, game) arguments: a game, the same game rescored, the same id
\* under another url, and another id under the first game's url
GameInputs ==
    {<<1, Game("Catan", UrlGame1, "7.1")>>, <<1, Game("Catan 2", UrlGame1b, "7.5")>>,
     <<2, Game("Catan", UrlGame1, "7.1")>>, <<2, Game("Azul", UrlGame2, "7.1")>>}

\* the games of the batches: two keys, and two games with one url
BatchGames ==
    {<<1, Game("Catan", UrlGame1, "7.1")>>, <<2, Game("Catan", UrlGame1, "7.1")>>,
     <<2, Game("Azul", UrlGame2, "7.1")>>}

\* the dict of bind parameters built from (bgg_id, game)
game_flat(bgg_id, game) ==
    [bgg_id |-> bgg_id, title |-> game.title, url |-> game.url, cols |-> game.cols]

\* flat records as get_complete_game_data returns them, and an error entry
FlatRecord(url, title, cols) ==
    << <<"title_and_year.title", title>>, <<"url", PyStr(url)>>,
       <<"stats.avg_rating", PyFloat(cols)>> >>

GameDatas ==
    {FlatRecord(UrlGame1, PyStr("Catan"), "7.1"),
     FlatRecord(UrlGame1, PyStr("Catan"), "7.5"),
     FlatRecord(UrlGame1b, PyStr("Catan"), "7.1"),
     FlatRecord(UrlGame2, PyNone, "7.1"),
     FlatRecord(UrlNoId, PyStr("Catan"), "7.1"),
     << <<"url", PyStr(UrlGame2)>>, <<"stats.avg_rating", PyFloat("7.5")>> >>,
     << <<"error", PyStr("boom")>> >>}

\* a bind parameter from a Python value
SqlValue(v) == IF v.type = "none" THEN SqlNull ELSE v.val[1]

\* game_data.get(key, default)
dict_get(items, k, default) == IF DictHas(items, k) THEN DictGet(items, k) ELSE default

\* a pass in which a url without an id is an error like any other
flattened_flat_id_error(game_data) ==
    IF ~DictHas(game_data, "url") THEN [kind |-> "raise"]
    ELSE LET bgg_id == extract_bgg_id(DictGet(game_data, "url").val[1])
         IN IF ~bgg_id.found \/ bgg_id.id = 0 THEN [kind |-> "raise"]
            ELSE [kind |-> "flat",
                  flat |-> [bgg_id |-> bgg_id.id,
                            title |-> SqlValue(dict_get(game_data, "title_and_year.title",
                                                        PyStr("Unknown"))),
                            url |-> DictGet(game_data, "url").val[1],
                            cols |-> SqlValue(dict_get(game_data, "stats.avg_rating",
                                                       PyNone))]]

\* one pass through the try block of save_flattened_game_data up to the
\* statement: "raise" (KeyError), "false" (return False) or the parameters
flattened_flat(game_data) ==
    IF ~DictHas(game_data, "url") THEN [kind |-> "raise"]
    ELSE LET bgg_id == extract_bgg_id(DictGet(game_data, "url").val[1])
         IN IF ~bgg_id.found \/ bgg_id.id = 0 THEN [kind |-> "false"]
            ELSE [kind |-> "flat",
                  flat |-> [bgg_id |-> bgg_id.id,
                            title |-> SqlValue(dict_get(game_data, "title_and_year.title",
                                                        PyStr("Unknown"))),
                            url |-> DictGet(game_data, "url").val[1],
                            cols |-> SqlValue(dict_get(game_data, "stats.avg_rating",
                                                       PyNone))]]

\* how one `create_engine(...); with engine.connect(): pass` can end
ConnectOutcomes == {"ok", "OperationalError", "Exception"}

\* a loop that goes round once more than `for i in range(retries)`
connect_exhausted_late(i, retries) == i >= retries

\* `for i in range(retries)` has no iteration left after iteration i
connect_exhausted(i, retries) == i >= retries - 1

\* the process starts by connecting: DatabaseManager() / create_db_engine(retries)
InitDb ==
    /\ table = {}
    /\ nextId = 1
    /\ clock = 0
    /\ dbpc = "connect"
    /\ call \in {[op |-> "connect", retries |-> r] : r \in 1..MaxRetries}
    /\ attempt = 0
    /\ sleeps = 0
    /\ txTable = {}
    /\ chunkAt = 0
    /\ ret = "none"
    /\ savedOK = {}
    /\ ncalls = 0
    /\ IdleBatch /\ IdleRecord /\ IdleEntity /\ IdleOther

\* the call returns (or raises): its frame, with the arguments, is gone
Return(r) ==
    /\ dbpc' = "idle"
    /\ ret' = r
    /\ call' = NoCall

\* one iteration of the connection loop: the engine is returned when the
\* connection opens; an OperationalError is logged and slept on; any other
\* exception is not caught
ConnectAttempt ==
    /\ dbpc = "connect"
    /\ \E outcome \in ConnectOutcomes :
          CASE outcome = "ok" -> Return("engine")
            [] outcome = "OperationalError" ->
                 dbpc' = "connect_sleep" /\ UNCHANGED <<ret, call>>
            [] outcome = "Exception" ->
                 dbpc' = "fatal" /\ ret' = "Exception" /\ call' = NoCall
    /\ UNCHANGED <<table, nextId, clock, attempt, sleeps, txTable, chunkAt, savedOK,
                   ncalls, batchVars, recVars, entVars, otherVars>>

\* time.sleep(delay) after an OperationalError, then the next iteration, or
\* `raise RuntimeError("Cannot connect to database")` after the last one
ConnectSleepDone ==
    /\ dbpc = "connect_sleep"
    /\ sleeps' = sleeps + 1
    /\ IF connect_exhausted(attempt, call.retries)
       THEN /\ dbpc' = "fatal"
            /\ ret' = "RuntimeError"
            /\ call' = NoCall
            /\ UNCHANGED attempt
       ELSE /\ dbpc' = "connect"
            /\ attempt' = attempt + 1
            /\ UNCHANGED <<ret, call>>
    /\ UNCHANGED <<table, nextId, clock, txTable, chunkAt, savedOK, ncalls,
                   batchVars, recVars, entVars, otherVars>>

\* time passes between calls
Tick ==
    /\ dbpc = "idle"
    /\ clock < MaxClock
    /\ clock' = clock + 1
    /\ UNCHANGED <<table, nextId, dbpc, call, attempt, sleeps, txTable, chunkAt, ret,
                   savedOK, ncalls, batchVars, recVars, entVars, otherVars>>

\* db.save_game(bgg_id, game, retries) is called
CallSaveGame ==
    /\ dbpc = "idle"
    /\ ncalls < MaxCalls
    /\ \E a \in GameInputs, r \in 1..MaxRetries :
          call' = [op |-> "save_game", bgg_id |-> a[1], game |-> a[2], retries |-> r]
    /\ dbpc' = "attempt"
    /\ attempt' = 0
    /\ sleeps' = 0
    /\ ret' = "none"
    /\ ncalls' = ncalls + 1
    /\ UNCHANGED <<table, nextId, clock, txTable, chunkAt, savedOK,
                   batchVars, recVars, entVars, otherVars>>

\* db.save_flattened_game_data(game_data, retries) is called
CallSaveFlattened ==
    /\ dbpc = "idle"
    /\ ncalls < MaxCalls
    /\ \E d \in GameDatas, r \in 1..MaxRetries :
          call' = [op |-> "save_flattened", game_data |-> d, retries |-> r]
    /\ dbpc' = "attempt"
    /\ attempt' = 0
    /\ sleeps' = 0
    /\ ret' = "none"
    /\ ncalls' = ncalls + 1
    /\ UNCHANGED <<table, nextId, clock, txTable, chunkAt, savedOK,
                   batchVars, recVars, entVars, otherVars>>

\* a handler that sleeps and retries whatever the attempt number
AttemptFailed_always_retry == dbpc' = "sleep" /\ ret' = ret /\ call' = call

\* except Exception: sleep and go round again, or return False after the
\* last attempt
AttemptFailed ==
    IF attempt < call.retries - 1
    THEN dbpc' = "sleep" /\ ret' = ret /\ call' = call
    ELSE Return("False")

\* where an attempt can fail although the statement itself is accepted:
\* before the commit (the connection or the transaction fails), or after
\* it (the commit reached the server but its acknowledgement did not come
\* back, or the print/log line that follows the with block raises)
Faults == {"none", "before commit", "after commit"}

\* one iteration of the retry loop of save_game / save_flattened_game_data:
\* build the parameters, run the statement in its own transaction
\* (engine.begin() commits on success and rolls back on an exception),
\* report and return True; any exception in the try block is an attempt
\* that failed.
AttemptSave ==
    /\ dbpc = "attempt"
    /\ call.op \in {"save_game", "save_flattened"}
    /\ LET p == IF call.op = "save_game"
                THEN [kind |-> "flat", flat |-> game_flat(call.bgg_id, call.game)]
                ELSE flattened_flat(call.game_data)
       IN CASE p.kind = "false" ->
                 /\ Return("False")
                 /\ UNCHANGED <<table, nextId, savedOK>>
            [] p.kind = "raise" ->
                 /\ AttemptFailed
                 /\ UNCHANGED <<table, nextId, savedOK>>
            [] p.kind = "flat" ->
                 \E fault \in Faults :
                    IF fault = "before commit"
                    THEN /\ AttemptFailed
                         /\ UNCHANGED <<table, nextId, savedOK>>
                    ELSE LET u == upsert(table, p.flat, nextId, clock)
                         IN /\ nextId' = nextId + inserted(table, u)
                            /\ IF u.ok
                               THEN /\ table' = u.rows
                                    /\ IF fault = "none"
                                       THEN /\ savedOK' = savedOK \cup {p.flat.bgg_id}
                                            /\ Return("True")
                                       ELSE /\ AttemptFailed
                                            /\ UNCHANGED savedOK
                               ELSE /\ AttemptFailed
                                    /\ UNCHANGED <<table, savedOK>>
    /\ UNCHANGED <<clock, attempt, sleeps, txTable, chunkAt, ncalls,
                   batchVars, recVars, entVars, otherVars>>

\* time.sleep(delay), then the next iteration
SleepDone ==
    /\ dbpc = "sleep"
    /\ sleeps' = sleeps + 1
    /\ attempt' = attempt + 1
    /\ \E t \in {clock, clock + 1} : t <= MaxClock /\ clock' = t
    /\ dbpc' = "attempt"
    /\ UNCHANGED <<table, nextId, call, txTable, chunkAt, ret, savedOK, ncalls,
                   batchVars, recVars, entVars, otherVars>>

\* batch_save_games(engine, games, batch_size) is called: the records are
\* built; with no games it returns at once, else engine.begin() opens the
\* transaction
CallBatchSave ==
    /\ dbpc = "idle"
    /\ ncalls < MaxCalls
    /\ \E gs \in SeqsUpTo(BatchGames, MaxBatch), bs \in 1..MaxBatch :
          IF Len(gs) = 0
          THEN Return("None")
          ELSE /\ call' = [op |-> "batch_save_games", batch_size |-> bs,
                           records |-> [n \in 1..Len(gs) |-> game_flat(gs[n][1], gs[n][2])]]
               /\ dbpc' = "chunk"
               /\ ret' = "none"
    /\ txTable' = table
    /\ chunkAt' = 0
    /\ attempt' = 0
    /\ sleeps' = 0
    /\ ncalls' = ncalls + 1
    /\ UNCHANGED <<table, nextId, clock, savedOK, batchVars, recVars, entVars, otherVars>>

\* a slice that stops one record short: records[i:i + batch_size - 1]
batch_slice_short(records, i, batch_size) ==
    SubSeq(records, i + 1,
           IF i + batch_size - 1 < Len(records) THEN i + batch_size - 1 ELSE Len(records))

\* records[i:i + batch_size], for 0 <= i < len(records) and batch_size > 0
batch_slice(records, i, batch_size) ==
    SubSeq(records, i + 1,
           IF i + batch_size < Len(records) THEN i + batch_size ELSE Len(records))

\* batch = records[i:i + batch_size]; conn.execute(sql, batch).
\* An exception leaves the `with` block: rollback, and the call raises.
BatchChunk ==
    /\ dbpc = "chunk"
    /\ chunkAt < Len(call.records)
    /\ LET batch == batch_slice(call.records, chunkAt, call.batch_size)
       IN \E fault \in BOOLEAN :
             IF fault
             THEN /\ Return("raised")
                  /\ txTable' = table
                  /\ UNCHANGED <<nextId, chunkAt>>
             ELSE LET e == execute_many(txTable, batch, nextId, clock)
                  IN /\ nextId' = nextId + inserted(txTable, e)
                     /\ IF e.ok
                        THEN /\ txTable' = e.rows
                             /\ chunkAt' = chunkAt + call.batch_size
                             /\ UNCHANGED <<dbpc, ret, call>>
                        ELSE /\ Return("raised")
                             /\ txTable' = table
                             /\ UNCHANGED chunkAt
    /\ UNCHANGED <<table, clock, attempt, sleeps, savedOK, ncalls,
                   batchVars, recVars, entVars, otherVars>>

\* the chunk loop is over: leaving the `with engine.begin()` block commits
BatchCommit ==
    /\ dbpc = "chunk"
    /\ chunkAt >= Len(call.records)
    /\ \E fault \in BOOLEAN :
          IF fault
          THEN /\ Return("raised")
               /\ txTable' = table
               /\ UNCHANGED <<table, savedOK>>
          ELSE /\ table' = txTable
               /\ Return("None")
               /\ savedOK' = savedOK \cup {call.records[n].bgg_id : n \in 1..Len(call.records)}
               /\ UNCHANGED txTable
    /\ UNCHANGED <<nextId, clock, attempt, sleeps, chunkAt, ncalls,
                   batchVars, recVars, entVars, otherVars>>

NextDb ==
    \/ ConnectAttempt
    \/ ConnectSleepDone
    \/ Tick
    \/ CallSaveGame
    \/ CallSaveFlattened
    \/ AttemptSave
    \/ SleepDone
    \/ CallBatchSave
    \/ BatchChunk
    \/ BatchCommit

SpecDb == InitDb /\ [][NextDb]_vars

\* ------------------------------------------------------------------------
\* batch_save_games on its own, with the connection reduced to the list of
\* the batches it was asked to execute
\* ------------------------------------------------------------------------
BatchSizes == 1..MaxBatch

BatchInputs == [games : SeqsUpTo(BatchGames, MaxRecords), batch_size : BatchSizes]

\* the list `records`, one dict of bind parameters per game, in input order
build_records(games) == [n \in 1..Len(games) |-> game_flat(games[n][1], games[n][2])]

InitChunks ==
    /\ IdleBatch
    /\ IdleRecord
    /\ IdleEntity
    /\ IdleDb
    /\ IdleMain
    /\ fleaves = {}
    /\ fin \in BatchInputs
    /\ fpc = "input"
    /\ fout = <<>>

\* if not games: return; else the records are built and engine.begin()
\* opens the transaction
BatchBegin ==
    /\ fpc = "input"
    /\ IF Len(fin.games) = 0
       THEN /\ fout' = [tx |-> "none", records |-> <<>>, i |-> 0, executed |-> <<>>]
            /\ fpc' = "done"
       ELSE /\ fout' = [tx |-> "open", records |-> build_records(fin.games), i |-> 0,
                        executed |-> <<>>]
            /\ fpc' = "loop"
    /\ UNCHANGED <<fleaves, fin>>
    /\ UNCHANGED <<batchVars, recVars, entVars, dbVars, mainVars>>

\* one iteration of `for i in range(0, len(records), batch_size)`: the
\* slice is executed, or the statement raises and the transaction rolls back
BatchExecute ==
    /\ fpc = "loop"
    /\ fout.i < Len(fout.records)
    /\ \E raises \in BOOLEAN :
          IF raises
          THEN /\ fout' = [fout EXCEPT !.tx = "rolled back"]
               /\ fpc' = "done"
          ELSE /\ fout' = [fout EXCEPT
                              !.executed = Append(@, batch_slice(fout.records, fout.i,
                                                                 fin.batch_size)),
                              !.i = @ + fin.batch_size]
               /\ fpc' = "loop"
    /\ UNCHANGED <<fleaves, fin>>
    /\ UNCHANGED <<batchVars, recVars, entVars, dbVars, mainVars>>

\* the range is exhausted: the with block is left and commits
BatchEnd ==
    /\ fpc = "loop"
    /\ fout.i >= Len(fout.records)
    /\ fout' = [fout EXCEPT !.tx = "committed"]
    /\ fpc' = "done"
    /\ UNCHANGED <<fleaves, fin>>
    /\ UNCHANGED <<batchVars, recVars, entVars, dbVars, mainVars>>

NextChunks ==
    \/ BatchBegin
    \/ BatchExecute
    \/ BatchEnd

SpecChunks == InitChunks /\ [][NextChunks]_vars

(***************************************************************************)
(* main.py: the command line program.  __main__ validates args.number and  *)
(* calls main(n), which connects, creates the table, asks get_urls for the *)
(* top n games and constructs the extractor.                               *)
(***************************************************************************)

\* the games the ranking pages can list
GameNames == 1..MaxGames

\* -n/--number: type=int, any sign
Numbers == (0 - 1)..MaxGames

LogPositive == "error: Number of games must be positive"
LogFailed == "critical: Application failed"
LogCompleted == "info: Completed!"
LogClosed == "info: BGG data extractor closed"

\* if args.number <= 0 (variant: zero is let through)
number_rejected_negative(n) == n < 0

\* if args.number <= 0
number_rejected(n) == n <= 0

\* get_urls: a dict name -> url of at most num_games entries, in the order
\* in which the pages list them; a page that cannot be fetched is skipped
get_urls(num_games) ==
    {s \in UNION {[1..k -> GameNames] : k \in 0..(IF num_games > 0 THEN num_games ELSE 0)} :
        \A i, j \in DOMAIN s : i # j => s[i] # s[j]}

\* DatabaseManager(): the engine, or the error of _connect_with_retry
DatabaseManagerOutcomes == {"engine", "RuntimeError"}

\* create_flattened_games_table: "Table ensured.", or the error is printed
CreateTableOutcomes == {"ensured", "error"}

\* BGGDataExtractor.__init__(self, playwright, browser, context, timeout=30000)
\* called with nargs positional arguments
constructor_outcome(nargs) == IF nargs < 3 THEN "TypeError" ELSE "extractor"

InitMain ==
    /\ IdleBatch
    /\ IdleRecord
    /\ IdleEntity
    /\ IdleDb
    /\ IdleFlatten
    /\ argNumber \in Numbers
    /\ mstep = "validate"
    /\ topGames = <<>>
    /\ connected = FALSE
    /\ tableCreated = "no"
    /\ fetched = FALSE
    /\ logged = {}
    /\ exitStatus = -1

\* sys.exit(status)
Exit(status, line) ==
    /\ mstep' = "exited"
    /\ exitStatus' = status
    /\ logged' = logged \cup {line}

\* except Exception as e: logger.critical(...); sys.exit(1)
ApplicationFailed == Exit(1, LogFailed)

\* __main__: validate the input, then call main(n)
Validate ==
    /\ mstep = "validate"
    /\ IF number_rejected(argNumber)
         THEN Exit(1, LogPositive)
         ELSE /\ mstep' = "connect"
              /\ UNCHANGED <<logged, exitStatus>>
    /\ UNCHANGED <<argNumber, topGames, connected, tableCreated, fetched>>
    /\ UNCHANGED <<batchVars, recVars, entVars, dbVars, flatVars>>

\* db = DatabaseManager()
Connect ==
    /\ mstep = "connect"
    /\ connected' = TRUE
    /\ \E o \in DatabaseManagerOutcomes :
          IF o = "engine"
            THEN /\ mstep' = "create_table"
                 /\ UNCHANGED <<logged, exitStatus>>
            ELSE ApplicationFailed
    /\ UNCHANGED <<argNumber, topGames, tableCreated, fetched>>
    /\ UNCHANGED <<batchVars, recVars, entVars, dbVars, flatVars>>

\* db.create_flattened_games_table(): an error is printed, not raised
CreateTable ==
    /\ mstep = "create_table"
    /\ tableCreated' \in CreateTableOutcomes
    /\ mstep' = "get_urls"
    /\ UNCHANGED <<argNumber, topGames, connected, fetched, logged, exitStatus>>
    /\ UNCHANGED <<batchVars, recVars, entVars, dbVars, flatVars>>

\* top_games = BGGTopGamesExtractor.get_urls(num_games=n)
GetUrls ==
    /\ mstep = "get_urls"
    /\ fetched' = TRUE
    /\ topGames' \in get_urls(argNumber)
    /\ mstep' = "construct"
    /\ UNCHANGED <<argNumber, connected, tableCreated, logged, exitStatus>>
    /\ UNCHANGED <<batchVars, recVars, entVars, dbVars, flatVars>>

\* bgg = BGGDataExtractor(): no argument is passed, the TypeError leaves
\* main() before its try block and reaches the handler of __main__
Construct ==
    /\ mstep = "construct"
    /\ constructor_outcome(0) = "TypeError"
    /\ ApplicationFailed
    /\ UNCHANGED <<argNumber, topGames, connected, tableCreated, fetched>>
    /\ UNCHANGED <<batchVars, recVars, entVars, dbVars, flatVars>>

NextMain == Validate \/ Connect \/ CreateTable \/ GetUrls \/ Construct

SpecMain == InitMain /\ [][NextMain]_vars

(***************************************************************************)
(* flatten_dict on its own: one call on a nested mapping.  The mapping is  *)
(* given by its leaves, each a path of keys with the value stored there.   *)
(***************************************************************************)

\* the keys of the inputs, in the insertion order used when a dict is built
KeyOrder == <<"a", "b", "c", "d", "e", "a.b", "c.d", "">>
DottedKeys == {"a.b", "c.d"}

\* the paths the leaves are taken from: {a:{b:_, c:{d:_}}, e:_}, keys that
\* contain the separator, empty keys, and a leaf at "a" itself
LeafPaths ==
    {<<"a", "b">>, <<"a", "c", "d">>, <<"e">>, <<"a">>,
     <<"a.b">>, <<"a", "c.d">>,
     <<"">>, <<"", "e">>, <<"a", "">>}

LeafValues == {PyInt("1"), PyInt("2")}

IsPrefix(p, q) == Len(p) <= Len(q) /\ SubSeq(q, 1, Len(p)) = p

\* leaves of a mapping: no path twice, no leaf below another leaf
LeafSets ==
    {ls \in SUBSET (LeafPaths \X LeafValues) :
        /\ Cardinality(ls) <= MaxLeaves
        /\ \A l, m \in ls : l # m => ~IsPrefix(l[1], m[1])}

\* the dict literal with the given leaves; keys from position n of KeyOrder on
RECURSIVE build_items(_, _)
build_items(ls, n) ==
    IF n > Len(KeyOrder) THEN <<>>
    ELSE LET k == KeyOrder[n]
             under == {l \in ls : l[1][1] = k}
             rest == build_items(ls, n + 1)
         IN IF under = {} THEN rest
            ELSE IF \E l \in under : Len(l[1]) = 1
                 THEN << <<k, (CHOOSE l \in under : Len(l[1]) = 1)[2]>> >> \o rest
                 ELSE << <<k, PyDict(build_items({<<Tail(l[1]), l[2]>> : l \in under}, 1))>> >>
                      \o rest

\* the '.'-joined keys of a path
RECURSIVE dotted_path(_)
dotted_path(p) ==
    IF Len(p) = 1 THEN p[1] ELSE p[1] \o "." \o dotted_path(Tail(p))

InitFlatten ==
    /\ IdleBatch
    /\ IdleRecord
    /\ IdleEntity
    /\ IdleDb
    /\ IdleMain
    /\ fleaves \in LeafSets
    /\ fin = build_items(fleaves, 1)
    /\ fpc = "input"
    /\ fout = <<>>

\* flat = await flatten_dict(d)
FlattenCall ==
    /\ fpc = "input"
    /\ fout' = flatten_dict(fin, "")
    /\ fpc' = "done"
    /\ UNCHANGED <<fleaves, fin>>
    /\ UNCHANGED <<batchVars, recVars, entVars, dbVars, mainVars>>

NextFlatten == FlattenCall

SpecFlatten == InitFlatten /\ [][NextFlatten]_vars

(***************************************************************************)
(* _extract_numeric_value on its own.  A str is the sequence of its        *)
(* characters; "sup2" stands for a character such as U+00B2, for which     *)
(* str.isdigit() is True although int() does not accept it.                *)
(***************************************************************************)
TextChars == {"0", "5", "-", ".", ",", " ", "x", "sup2"}
PyText(chars) == Leaf("str", chars)
PyIntValue(n) == Leaf("int", <<n>>)

\* a float m / 10^k, in lowest terms of k
RECURSIVE PyFloatValue(_, _)
PyFloatValue(m, k) ==
    IF k > 0 /\ m % 10 = 0 THEN PyFloatValue(m \div 10, k - 1)
    ELSE Leaf("float", <<m, k>>)

Returned(v) == [raised |-> FALSE, value |-> v]
Raised(e) == [raised |-> TRUE, value |-> e]

Texts == UNION {[1..n -> TextChars] : n \in 0..MaxText}

\* str.strip()
RECURSIVE lstrip(_)
lstrip(t) == IF Len(t) > 0 /\ t[1] = " " THEN lstrip(Tail(t)) ELSE t
RECURSIVE rstrip(_)
rstrip(t) ==
    IF Len(t) > 0 /\ t[Len(t)] = " " THEN rstrip(SubSeq(t, 1, Len(t) - 1)) ELSE t
strip(t) == rstrip(lstrip(t))

\* str.replace(",", "") (variant: nothing is removed)
remove_commas_keep(t) == t

\* str.replace(",", "")
remove_commas(t) == SelectSeq(t, LAMBDA c : c # ",")

\* str.isdigit()
isdigit(t) == Len(t) > 0 /\ \A n \in 1..Len(t) : IsDigit(t[n]) \/ t[n] = "sup2"

\* every character is matched by \d
all_decimal(t) == Len(t) > 0 /\ \A n \in 1..Len(t) : IsDigit(t[n])

\* re.match(r"^-?\d+\.\d+$", t)
matches_decimal(t) ==
    LET u == IF Len(t) > 0 /\ t[1] = "-" THEN Tail(t) ELSE t
    IN \E d \in 1..Len(u) :
          /\ u[d] = "."
          /\ all_decimal(SubSeq(u, 1, d - 1))
          /\ all_decimal(SubSeq(u, d + 1, Len(u)))

\* int(t) of an optionally signed string
py_int(t) ==
    LET neg == Len(t) > 0 /\ t[1] = "-"
        u == IF neg THEN Tail(t) ELSE t
    IN IF all_decimal(u)
       THEN Returned(PyIntValue(IF neg THEN 0 - to_int(u) ELSE to_int(u)))
       ELSE Raised("ValueError")

\* float(t) of a string that matches the decimal pattern
py_float(t) ==
    LET neg == Len(t) > 0 /\ t[1] = "-"
        u == IF neg THEN Tail(t) ELSE t
        ds == SelectSeq(u, LAMBDA c : c # ".")
        k == Len(u) - (CHOOSE d \in 1..Len(u) : u[d] = ".")
    IN IF matches_decimal(t)
       THEN Returned(PyFloatValue(IF neg THEN 0 - to_int(ds) ELSE to_int(ds), k))
       ELSE Raised("ValueError")

\* try: return int(...)/float(...) with the handler missing
except_ValueError_uncaught(r, raw_value) == r

\* try: return ... except ValueError: return raw_value
except_ValueError(r, raw_value) == IF r.raised THEN Returned(raw_value) ELSE r

extract_numeric_value(raw_value) ==
    IF raw_value = PyNone THEN Returned(raw_value)
    ELSE LET cleaned_value == remove_commas(strip(raw_value.val))
         IN IF matches_decimal(cleaned_value)
              THEN except_ValueError(py_float(cleaned_value), raw_value)
            ELSE IF \/ isdigit(cleaned_value)
                    \/ /\ Len(cleaned_value) > 0
                       /\ cleaned_value[1] = "-"
                       /\ isdigit(Tail(cleaned_value))
              THEN except_ValueError(py_int(cleaned_value), raw_value)
            ELSE Returned(raw_value)

RawValues == {PyNone} \cup {PyText(t) : t \in Texts}

InitNumeric ==
    /\ IdleBatch
    /\ IdleRecord
    /\ IdleEntity
    /\ IdleDb
    /\ IdleMain
    /\ fleaves = {}
    /\ fin \in RawValues
    /\ fpc = "input"
    /\ fout = <<>>

\* value = self._extract_numeric_value(parts[1])
ExtractNumericCall ==
    /\ fpc = "input"
    /\ fout' = extract_numeric_value(fin)
    /\ fpc' = "done"
    /\ UNCHANGED <<fleaves, fin>>
    /\ UNCHANGED <<batchVars, recVars, entVars, dbVars, mainVars>>

NextNumeric == ExtractNumericCall

SpecNumeric == InitNumeric /\ [][NextNumeric]_vars

(***************************************************************************)
(* load_game_ids_from_txt: the entity list file.  The file is the sequence *)
(* of its lines, a line the sequence of its characters.                    *)
(***************************************************************************)
LineTexts == {<<"1", "2", "3">>, <<"a", "b", "c">>, <<"4", "5", "6">>, <<>>, <<"7", "8", "9">>}
NoLimit == 0 - 1
Limits == {NoLimit} \cup 1..MaxLines
TxtFiles == UNION {[1..n -> LineTexts] : n \in 0..MaxLines}

\* a line that is a decimal integer
is_decimal_line(line) == Len(line) > 0 /\ \A n \in 1..Len(line) : IsDigit(line[n])

\* the lines are read in file order (variant: reading stops at the first
\* line that is not a number)
RECURSIVE load_ids_stop(_)
load_ids_stop(lines) ==
    IF Len(lines) = 0 \/ ~is_decimal_line(lines[1]) THEN <<>>
    ELSE <<to_int(lines[1])>> \o load_ids_stop(Tail(lines))

\* the lines are read in file order; a line that is not a number is skipped
RECURSIVE load_ids(_)
load_ids(lines) ==
    IF Len(lines) = 0 THEN <<>>
    ELSE IF is_decimal_line(lines[1])
         THEN <<to_int(lines[1])>> \o load_ids(Tail(lines))
         ELSE load_ids(Tail(lines))

\* the optional limit: the first N entries of the loaded list
truncate(ids, limit) ==
    IF limit # NoLimit /\ limit < Len(ids) THEN SubSeq(ids, 1, limit) ELSE ids

load_game_ids_from_txt(lines, limit) == truncate(load_ids(lines), limit)

InitLoader ==
    /\ IdleBatch
    /\ IdleRecord
    /\ IdleEntity
    /\ IdleDb
    /\ IdleMain
    /\ fleaves = {}
    /\ fin \in [lines : TxtFiles, limit : Limits]
    /\ fpc = "input"
    /\ fout = <<>>

LoadCall ==
    /\ fpc = "input"
    /\ fout' = load_game_ids_from_txt(fin.lines, fin.limit)
    /\ fpc' = "done"
    /\ UNCHANGED <<fleaves, fin>>
    /\ UNCHANGED <<batchVars, recVars, entVars, dbVars, mainVars>>

NextLoader == LoadCall

SpecLoader == InitLoader /\ [][NextLoader]_vars

(***************************************************************************)
(* _safe_query_selector and _safe_query_selector_all.  The argument of the *)
(* call is what the page answers: query is what page.query_selector(_all)  *)
(* does, text what element.text_content() does.                            *)
(***************************************************************************)
\* what an awaited Playwright call can raise: subclasses of Exception, and
\* asyncio.CancelledError, which is a BaseException only
NotExceptions == {"CancelledError"}
Raisable == {"TimeoutError", "Error"} \cup NotExceptions

TextContents ==
    {Returned(PyNone)} \cup {Returned(PyText(t)) : t \in Texts} \cup {Raised(e) : e \in Raisable}

\* page.query_selector: no element (None), an element, or an exception
QuerySelectorAnswers ==
    {[fn |-> "one", query |-> Returned("none"), text |-> Returned(PyNone)]}
    \cup {[fn |-> "one", query |-> Returned("element"), text |-> t] : t \in TextContents}
    \cup {[fn |-> "one", query |-> Raised(e), text |-> Returned(PyNone)] : e \in Raisable}

\* page.query_selector_all: the list of the matching elements, or an exception
QuerySelectorAllAnswers ==
    {[fn |-> "all", query |-> Returned(PyList(es))] :
        es \in UNION {[1..n -> {"li1", "li2"}] : n \in 0..3}}
    \cup {[fn |-> "all", query |-> Raised(e)] : e \in Raisable}

\* except Exception as e: (variant: the handler raises the exception again)
except_Exception_reraise(r, empty) == r

\* try: ... except Exception as e: logger.debug(...); return <empty>
except_Exception(r, empty) ==
    IF r.raised /\ r.value \notin NotExceptions THEN Returned(empty) ELSE r

\* the try block of _safe_query_selector
query_selector_text(a) ==
    IF a.query.raised THEN a.query
    ELSE IF a.query.value # "none"
         THEN IF a.text.raised THEN a.text
              ELSE IF a.text.value # PyNone /\ a.text.value.val # <<>>
                   THEN Returned(PyText(strip(a.text.value.val)))
                   ELSE Returned(PyNone)
         ELSE Returned(PyNone)

safe_query_selector(a) == except_Exception(query_selector_text(a), PyNone)

safe_query_selector_all(a) == except_Exception(a.query, PyList(<<>>))

InitSelector ==
    /\ IdleBatch
    /\ IdleRecord
    /\ IdleEntity
    /\ IdleDb
    /\ IdleMain
    /\ fleaves = {}
    /\ fin \in QuerySelectorAnswers \cup QuerySelectorAllAnswers
    /\ fpc = "input"
    /\ fout = <<>>

SafeQuerySelector ==
    /\ fpc = "input"
    /\ fin.fn = "one"
    /\ fout' = safe_query_selector(fin)
    /\ fpc' = "done"
    /\ UNCHANGED <<fleaves, fin>>
    /\ UNCHANGED <<batchVars, recVars, entVars, dbVars, mainVars>>

SafeQuerySelectorAll ==
    /\ fpc = "input"
    /\ fin.fn = "all"
    /\ fout' = safe_query_selector_all(fin)
    /\ fpc' = "done"
    /\ UNCHANGED <<fleaves, fin>>
    /\ UNCHANGED <<batchVars, recVars, entVars, dbVars, mainVars>>

NextSelector == SafeQuerySelector \/ SafeQuerySelectorAll

SpecSelector == InitSelector /\ [][NextSelector]_vars

(***************************************************************************)
(* scraper/bgg_client.py: fetch_game_data.  The argument of the call is    *)
(* what the BGG API answers: get is what session.get does, text what       *)
(* response.text() does.  Of the sixteen fields of the document the model  *)
(* keeps one of each kind: an attribute read as str, an attribute read     *)
(* with int(), an element's text, and the rank.                            *)
(***************************************************************************)
Missing == Leaf("missing", <<>>)
NotWellFormed == Leaf("not well-formed", <<>>)
XmlDocuments ==
    {NotWellFormed} \cup
    [title : {Missing, PyStr("Catan")},
     year : {Missing, PyText(<<"x">>), PyText(<<"1", "9", "9", "5">>)},
     thumbnail : {Missing, PyNone, PyStr("https://cf.geekdo-images.com/pic.jpg")},
     rank : {PyText(<<"N", "o", "t", " ", "R", "a", "n", "k", "e", "d">>), PyText(<<"1">>)}]

ApiAnswers ==
    {[game_id |-> g, get |-> Raised(e), text |-> Returned(NotWellFormed)] :
        g \in 1..2, e \in {"TimeoutError", "ClientError"}}
    \cup {[game_id |-> g, get |-> Returned(st), text |-> Returned(NotWellFormed)] :
            g \in 1..2, st \in {202, 404}}
    \cup {[game_id |-> g, get |-> Returned(200), text |-> t] :
            g \in 1..2,
            t \in {Returned(doc) : doc \in XmlDocuments}
                  \cup {Raised(e) : e \in {"TimeoutError", "ClientError", "UnicodeDecodeError"}}}

\* except asyncio.TimeoutError / except aiohttp.ClientError (variant: only
\* the timeout is handled)
except_request_timeout_only(r) ==
    IF r.raised /\ r.value = "TimeoutError" THEN Returned(PyNone) ELSE r

\* except asyncio.TimeoutError: return None; except aiohttp.ClientError: return None
except_request(r) ==
    IF r.raised /\ r.value \in {"TimeoutError", "ClientError"} THEN Returned(PyNone) ELSE r

\* the first try block: the text of the response; None stands for the
\* early `return None`
request_text(a) ==
    IF a.get.raised THEN a.get
    ELSE IF a.get.value # 200 THEN Returned(PyNone)
    ELSE a.text

\* int(root.find(path).attrib["value"])
xml_int(v) == IF v = Missing THEN Raised("AttributeError") ELSE py_int(v.val)

\* the second try block: ET.fromstring, the data dict, Game(**data)
parse_game(doc) ==
    IF doc = NotWellFormed THEN Raised("ParseError")
    ELSE IF doc.title = Missing THEN Raised("AttributeError")
    ELSE IF xml_int(doc.year).raised THEN xml_int(doc.year)
    ELSE IF doc.thumbnail = Missing THEN Raised("AttributeError")
    ELSE IF xml_int(doc.rank).raised THEN xml_int(doc.rank)
    ELSE IF doc.thumbnail = PyNone THEN Raised("ValidationError")
    ELSE Returned([type |-> "Game",
                   title |-> doc.title,
                   year |-> xml_int(doc.year).value.val[1],
                   url |-> doc.thumbnail,
                   rank |-> xml_int(doc.rank).value.val[1]])

fetch_game_data(a) ==
    LET text == except_request(request_text(a))
    IN IF text.raised \/ text.value = PyNone THEN text
       ELSE except_Exception(parse_game(text.value), PyNone)

InitClient ==
    /\ IdleBatch
    /\ IdleRecord
    /\ IdleEntity
    /\ IdleDb
    /\ IdleMain
    /\ fleaves = {}
    /\ fin \in ApiAnswers
    /\ fpc = "input"
    /\ fout = <<>>

FetchGameData ==
    /\ fpc = "input"
    /\ fout' = fetch_game_data(fin)
    /\ fpc' = "done"
    /\ UNCHANGED <<fleaves, fin>>
    /\ UNCHANGED <<batchVars, recVars, entVars, dbVars, mainVars>>

NextClient == FetchGameData

SpecClient == InitClient /\ [][NextClient]_vars

(***************************************************************************)
(* BGGTopGamesExtractor.get_urls: the ranking pages are requested one by   *)
(* one and their links collected in a dict name -> url.  A game name is a  *)
(* number here (its rank on the site), a href a pair <<name, edition>>.    *)
(***************************************************************************)
GAMES_PER_PAGE == 100

\* requests.get / raise_for_status raised a RequestException
PageFailed == [status |-> "failed", links |-> <<>>]

\* a ranking page whose links are the games first .. first + count - 1
PageOf(first, count, edition) ==
    [status |-> "ok",
     links |-> [k \in 1..count |-> [text |-> first + k - 1,
                                    href |-> <<first + k - 1, edition>>]]]

\* what a request for a page can bring: a failure, a full page, the next
\* full page, a short page that lists the first games again under other
\* hrefs, a page with no link
Responses ==
    {PageFailed,
     PageOf(1, GAMES_PER_PAGE, "a"),
     PageOf(GAMES_PER_PAGE + 1, GAMES_PER_PAGE, "a"),
     PageOf(1, 2, "b"),
     PageOf(1, 0, "a")}

Sites == [1..MaxPages -> Responses]

\* values of num_games: none, fewer than a page, a page, a page and one,
\* as many as the site's pages hold
NumGames == {0, 1, 2, GAMES_PER_PAGE, GAMES_PER_PAGE + 1, GAMES_PER_PAGE * MaxPages}

\* pages_needed = (num_games - 1) // cls.GAMES_PER_PAGE + 1
pages_needed(num_games) == ((num_games - 1) \div GAMES_PER_PAGE) + 1

\* cls.BASE_URL + link.get("href")
game_url(href) == <<"BASE_URL", href>>

\* a handler that gives up the remaining pages: break
except_RequestException_break(loop) == [loop EXCEPT !.page_num = loop.pages_needed + 1]

\* except requests.RequestException: logger.error(...); continue
except_RequestException(loop) == [loop EXCEPT !.page_num = @ + 1]

InitUrls ==
    /\ IdleBatch
    /\ IdleRecord
    /\ IdleEntity
    /\ IdleDb
    /\ IdleMain
    /\ fleaves = {}
    /\ fin \in [num_games : NumGames, site : Sites]
    /\ fpc = "input"
    /\ fout = <<>>

\* get_urls(num_games) is called: pages_needed is computed, games = {}
GetUrlsBegin ==
    /\ fpc = "input"
    /\ fout' = [pages_needed |-> pages_needed(fin.num_games), page_num |-> 1,
                requested |-> <<>>, link_at |-> 0, games |-> <<>>]
    /\ fpc' = "loop"
    /\ UNCHANGED <<fleaves, fin>>
    /\ UNCHANGED <<batchVars, recVars, entVars, dbVars, mainVars>>

\* one iteration of `for page_num in range(1, pages_needed + 1)` up to the
\* links: the page is requested; a failed request goes on with the next
\* page, else the links of the page are found
GetUrlsPage ==
    /\ fpc = "loop"
    /\ fout.page_num <= fout.pages_needed
    /\ LET asked == [fout EXCEPT !.requested = Append(@, fout.page_num)]
       IN IF fin.site[fout.page_num].status = "failed"
          THEN /\ fout' = except_RequestException(asked)
               /\ fpc' = "loop"
          ELSE /\ fout' = [asked EXCEPT !.link_at = 1]
               /\ fpc' = "links"
    /\ UNCHANGED <<fleaves, fin>>
    /\ UNCHANGED <<batchVars, recVars, entVars, dbVars, mainVars>>

\* one iteration of `for link in game_links` that does not break:
\* games[game_name] = game_url
GetUrlsLink ==
    /\ fpc = "links"
    /\ fout.link_at <= Len(fin.site[fout.page_num].links)
    /\ Len(fout.games) < fin.num_games
    /\ LET link == fin.site[fout.page_num].links[fout.link_at]
       IN fout' = [fout EXCEPT !.games = DictSet(@, link.text, game_url(link.href)),
                               !.link_at = @ + 1]
    /\ fpc' = "links"
    /\ UNCHANGED <<fleaves, fin>>
    /\ UNCHANGED <<batchVars, recVars, entVars, dbVars, mainVars>>

\* the link loop is left, by its break or at its end; the page loop breaks
\* too when num_games are collected, and goes to the next page otherwise
GetUrlsPageEnd ==
    /\ fpc = "links"
    /\ \/ fout.link_at > Len(fin.site[fout.page_num].links)
       \/ Len(fout.games) >= fin.num_games
    /\ IF Len(fout.games) >= fin.num_games
       THEN /\ fpc' = "done"
            /\ UNCHANGED fout
       ELSE /\ fpc' = "loop"
            /\ fout' = [fout EXCEPT !.page_num = @ + 1]
    /\ UNCHANGED <<fleaves, fin>>
    /\ UNCHANGED <<batchVars, recVars, entVars, dbVars, mainVars>>

\* the range is exhausted: return games
GetUrlsReturn ==
    /\ fpc = "loop"
    /\ fout.page_num > fout.pages_needed
    /\ fpc' = "done"
    /\ UNCHANGED <<fleaves, fin, fout>>
    /\ UNCHANGED <<batchVars, recVars, entVars, dbVars, mainVars>>

NextUrls ==
    \/ GetUrlsBegin
    \/ GetUrlsPage
    \/ GetUrlsLink
    \/ GetUrlsPageEnd
    \/ GetUrlsReturn

SpecUrls == InitUrls /\ [][NextUrls]_vars

Init == InitBatch /\ IdleRecord /\ IdleEntity /\ IdleDb /\ IdleOther

Next ==
    \/ MainCreate
    \/ MainWake
    \/ MainStartCollect
    \/ \E i \in Workers : WorkerStart(i)
    \/ \E i \in Workers : WorkerResume(i)
    \/ \E i \in Workers : WorkerDispatch(i)
    \/ \E i \in Workers : WorkerRaise(i)
    \/ MainCollect
    \/ MainReturn
    \/ \E i \in Workers : WorkerReturn(i)

Spec == Init /\ [][Next]_vars

\* the event loop keeps running ready tasks, and every awaited page load or
\* selector wait finishes or times out
LiveSpec == Spec /\ WF_vars(Next)

\* ------------------------------------------------------------------------
\* Properties of batch_extract_data
\* ------------------------------------------------------------------------
InFlight == {i \in Workers : wpc[i] \in {"entered", "gathering"}}
Admitted == {i \in Workers : wpc[i] \in {"woken", "entered", "gathering", "done"}}

\* C1: at most `concurrency` workers are inside get_complete_game_data at once
C1_BoundedConcurrency == Cardinality(InFlight) <= concurrency

C1_Witness ==
    /\ concurrency = 2
    /\ Cardinality(InFlight) = 2
    /\ \E i \in Workers : wpc[i] = "waiting"

\* C2 (as stated): on return the number of outcomes equals len(urls)
C2_OneOutcomePerInputElement ==
    mainpc = "returned" => Len(results) = Len(urls)

\* C2 (amended): on return the result holds exactly one outcome, a record or
\* an error entry, per distinct url of the input, so the number of outcomes
\* equals the number of distinct urls (len(urls) when they are pairwise
\* distinct)
C2_OneOutcomePerDistinctUrl ==
    mainpc = "returned" =>
        /\ DictKeys(results) = Range(urls)
        /\ Len(results) = Cardinality(Range(urls))
        /\ \A n \in 1..Len(results) :
              IsRecord(results[n][2]) \/ IsErrorEntry(results[n][2])

C2_Witness ==
    /\ mainpc = "returned"
    /\ Len(urls) = 3
    /\ Len(results) = 2
    /\ raised # {}
    /\ \E i \in Workers : i \notin raised /\ gathered[i][3] = EmptyDefault(3)
    /\ doneQueue[1] # 1

\* the worker whose pair the collecting loop consumed last
LastCollected == doneQueue[ncollected]

\* C3: an exception of get_complete_game_data becomes that url's error entry
\* with the exception text; the batch does not raise, no worker is cancelled
\* and on return every url has its outcome
C3_ExceptionIsolated ==
    /\ mainpc # "raised"
    /\ \A i \in Workers : wpc[i] # "cancelled"
    /\ \A i \in raised :
          /\ wpc[i] = "done"
          /\ taskResult[i].kind = "pair"
          /\ taskResult[i].url = urls[i]
          /\ taskResult[i].data = << <<"error", PyStr(ExcText(urls[i]))>> >>
    /\ (ncollected > 0 /\ LastCollected \in raised) =>
          DictGet(results, urls[LastCollected]) = << <<"error", PyStr(ExcText(urls[LastCollected]))>> >>
    /\ mainpc = "returned" =>
          /\ \A i \in Workers : wpc[i] = "done"
          /\ \A i \in Workers : DictHas(results, urls[i])
          /\ \A i \in Workers \ raised :
                (\A j \in Workers : urls[j] = urls[i] => j = i) =>
                    DictGet(results, urls[i]) = complete_game_data(urls[i], gathered[i])

C3_Witness ==
    /\ mainpc = "returned"
    /\ Cardinality(raised) = 1
    /\ Len(urls) = 3
    /\ Len(results) = 2
    /\ \E i \in raised : IsErrorEntry(DictGet(results, urls[i]))
    /\ \E j \in Workers \ raised : IsRecord(DictGet(results, urls[j]))

\* C5: under a fair scheduler every url is admitted and gets an outcome, and
\* batch_extract_data returns
C5_EventuallyReturns ==
    <>(/\ mainpc = "returned"
       /\ \A i \in Workers : i \in Admitted /\ taskResult[i].kind = "pair"
       /\ \A i \in Workers : DictHas(results, urls[i]))

C5_Witness ==
    /\ mainpc = "returned"
    /\ Len(urls) = 3
    /\ concurrency = 1
    /\ raised # {}
    /\ doneQueue = <<1, 2, 3>>

\* C6: no url is admitted while a url that precedes it in the input still
\* waits for a slot
C6_AdmissionInInputOrder ==
    \A i \in Workers : \A j \in Workers :
        (i < j /\ wpc[i] \in {"created", "waiting"}) => j \notin Admitted

C6_Witness ==
    /\ Len(urls) = 3
    /\ concurrency = 1
    /\ wpc[1] = "done"
    /\ wpc[2] = "woken"
    /\ wpc[3] = "waiting"
    /\ waiters = <<2, 3>>

\* ------------------------------------------------------------------------
\* Properties of the worker body
\* ------------------------------------------------------------------------
\* the entries section s contributes to the flat record when its task ended
\* with value v: one per key of a dict, the value itself otherwise
SectionKeys(s, v) ==
    IF v.type = "dict" THEN {Sections[s] \o "." \o v.val[n][1] : n \in 1..Len(v.val)}
    ELSE {Sections[s]}

SectionKept(s, v, data) ==
    IF v.type = "dict"
    THEN \A n \in 1..Len(v.val) :
            /\ DictHas(data, Sections[s] \o "." \o v.val[n][1])
            /\ DictGet(data, Sections[s] \o "." \o v.val[n][1]) = v.val[n][2]
    ELSE DictHas(data, Sections[s]) /\ DictGet(data, Sections[s]) = v

\* C4: whichever sections fail (empty default or exception), the flat record
\* holds, under their dotted keys, exactly the values the other sections
\* returned, and the outcome is a record, not an error entry
C4_PartialFailureIsolated ==
    recpc = "done" =>
        /\ recOut.kind = "pair"
        /\ IsRecord(recOut.data)
        /\ DictGet(recOut.data, "url") = PyStr(recUrl)
        /\ \A s \in 1..NumSections :
              recCodes[s] # "exc" =>
                  SectionKept(s, SectionValue(recCodes[s], s, recUrl), recOut.data)
        /\ DictKeys(recOut.data) =
              {"url"} \cup UNION {SectionKeys(s, SectionValue(recCodes[s], s, recUrl)) :
                                     s \in {t \in 1..NumSections : recCodes[t] # "exc"}}

C4_Witness ==
    /\ recpc = "done"
    /\ recCodes = <<"full", "full", "exc", "full", "full">>
    /\ Len(recOut.data) = 11
    /\ DictGet(recOut.data, "categories_mechanics.mechanics") = PyList(<<"Trading", "Dice">>)

\* ------------------------------------------------------------------------
\* Properties of the section fetches
\* ------------------------------------------------------------------------
\* C7: a fetch navigates with networkidle first; domcontentloaded is tried
\* only after the networkidle attempt timed out, and once, so there are at
\* most two attempts and none after a non-timeout navigation error
C7_TwoTierNavigation ==
    \A s \in DOMAIN spc :
        /\ navs[s] \in {<<>>, <<"networkidle">>, <<"networkidle", "domcontentloaded">>}
        /\ Len(navs[s]) = 2 => nav1[s] = "timeout"
        /\ nav1[s] = "error" => (navs[s] = <<"networkidle">> /\ spc[s] = "done")
        /\ spc[s] = "goto2" => (nav1[s] = "timeout" /\ Len(navs[s]) = 1)

C7_Witness ==
    /\ epc = "returned"
    /\ navs[3] = <<"networkidle", "domcontentloaded">>
    /\ nav1[3] = "timeout"
    /\ nav1[4] = "error"
    /\ navs[4] = <<"networkidle">>
    /\ navs[1] = <<"networkidle">>
    /\ nav1[1] = "ok"

\* C8: a fetch raises nothing; when its outer handler ran (both navigation
\* attempts timed out, or another exception reached it) it returned its
\* empty default
C8_FetchNeverPropagates ==
    \A s \in DOMAIN spc :
        /\ ~sexc[s]
        /\ spc[s] = "done" => sres[s] # NoValue
        /\ handled[s] => (spc[s] = "done" /\ sres[s] = EmptyDefault(s))
        /\ (spc[s] = "done" /\ Len(navs[s]) = 2 /\ page[s] = "open") =>
              sres[s] = EmptyDefault(s)

C8_Witness ==
    /\ epc = "returned"
    /\ \A s \in SectionIds : handled[s]
    /\ \A s \in SectionIds : Len(navs[s]) = 2
    /\ DictKeys(erec) = {"title_and_year.title", "title_and_year.year", "url",
                         "basic_info.min_players", "basic_info.max_players",
                         "basic_info.min_play_time", "basic_info.max_play_time",
                         "basic_info.min_age", "types",
                         "categories_mechanics.categories",
                         "categories_mechanics.mechanics"}

\* C9 (as stated): every page a fetch created is closed when the fetch has
\* returned
C9_PagesClosedOnEveryPath ==
    \A s \in DOMAIN spc : spc[s] = "done" => page[s] # "open"

\* ------------------------------------------------------------------------
\* Properties of the table
\* ------------------------------------------------------------------------
RowsOf(b) == {r \in table : r.bgg_id = b}

\* C10: the table holds at most one row per bgg_id, and exactly one for
\* every bgg_id saved successfully at least once
C10_UniqueNaturalKey ==
    /\ \A r1 \in table : \A r2 \in table : r1.bgg_id = r2.bgg_id => r1 = r2
    /\ \A b \in savedOK : Cardinality(RowsOf(b)) = 1

C10_Witness ==
    /\ dbpc = "idle"
    /\ ncalls = 2
    /\ ret = "True"
    /\ savedOK = {1}
    /\ \E r \in table : r.bgg_id = 1 /\ r.updated_at > r.created_at /\ r.cols = "7.5"

\* the running single-record save gets as far as the statement
flattened_or_game_has_flat ==
    call.op = "save_game" \/ flattened_flat(call.game_data).kind = "flat"

\* the bind parameters of the single-record save that is running
SaveFlat ==
    IF call.op = "save_game" THEN game_flat(call.bgg_id, call.game)
    ELSE flattened_flat(call.game_data).flat

\* this step is a single-record save returning True
SaveSucceeds == dbpc = "attempt" /\ ret' = "True"

\* this step is batch_save_games committing and returning
BatchSucceeds == dbpc = "chunk" /\ ret' = "None" /\ call.op = "batch_save_games"

\* the record of the running batch that is the last one with its bgg_id
LastOfKey(n) ==
    \A k \in (n+1)..Len(call.records) : call.records[k].bgg_id # call.records[n].bgg_id

\* the row of key b in a set of rows
RowOf(rows, b) == CHOOSE r \in rows : r.bgg_id = b

\* C11 (as claimed): after a successful upsert the row of its key holds the
\* values of that write in every written column, url included
C11_LastWriteWinsEveryColumn ==
    [][SaveSucceeds =>
          LET r == RowOf(table', SaveFlat.bgg_id)
          IN r.title = SaveFlat.title /\ r.cols = SaveFlat.cols /\ r.url = SaveFlat.url]_vars

\* C11 (amended): after a successful upsert (single save, or a committed
\* batch) the row of its key holds the values of the last write of that key
\* in every column of the DO UPDATE SET list (title and the data columns)
C11_LastWriteWins ==
    [][/\ SaveSucceeds =>
             LET r == RowOf(table', SaveFlat.bgg_id)
             IN r.title = SaveFlat.title /\ r.cols = SaveFlat.cols
       /\ BatchSucceeds =>
             \A n \in 1..Len(call.records) :
                LastOfKey(n) =>
                   LET r == RowOf(table', call.records[n].bgg_id)
                   IN r.title = call.records[n].title /\ r.cols = call.records[n].cols]_vars

C11_Witness ==
    /\ dbpc = "idle"
    /\ ret = "True"
    /\ \E r \in table : /\ r.bgg_id = 1
                        /\ r.title = "Catan 2"
                        /\ r.cols = "7.5"
                        /\ r.url = UrlGame1
                        /\ r.updated_at > r.created_at

\* C12: updated_at of a row never moves backwards, and a successful upsert
\* sets it to the current time, on insert and on conflict alike
C12_UpdatedAtAdvances ==
    [][/\ \A r \in table : \E r2 \in table' :
             r2.bgg_id = r.bgg_id /\ r2.updated_at >= r.updated_at
       /\ SaveSucceeds => RowOf(table', SaveFlat.bgg_id).updated_at = clock'
       /\ BatchSucceeds =>
             \A n \in 1..Len(call.records) :
                RowOf(table', call.records[n].bgg_id).updated_at = clock']_vars

C12_Witness ==
    /\ dbpc = "idle"
    /\ ret = "None"
    /\ ncalls = 2
    /\ clock = 1
    /\ \E r \in table : r.created_at = 0 /\ r.updated_at = 1

\* C13 (as claimed): a successful upsert whose title, url and data columns
\* equal those of the stored row leaves the row's updated_at unchanged
C13_IdenticalUpsertKeepsTimestamp ==
    [][(/\ SaveSucceeds
        /\ \E r \in table : /\ r.bgg_id = SaveFlat.bgg_id
                            /\ r.title = SaveFlat.title
                            /\ r.url = SaveFlat.url
                            /\ r.cols = SaveFlat.cols)
          => RowOf(table', SaveFlat.bgg_id).updated_at =
                RowOf(table, SaveFlat.bgg_id).updated_at]_vars

\* C14: no step changes id, bgg_id, url or created_at of a stored row, an
\* upsert that conflicts on bgg_id with another url included
C14_IdentityFieldsKept ==
    [][\A r \in table : \E r2 \in table' :
          /\ r2.bgg_id = r.bgg_id
          /\ r2.id = r.id
          /\ r2.url = r.url
          /\ r2.created_at = r.created_at]_vars

C14_Witness ==
    /\ dbpc = "idle"
    /\ ret = "True"
    /\ \E r \in table : /\ r.bgg_id = 1
                        /\ r.title = "Catan"
                        /\ r.url = UrlGame1b
                        /\ r.cols = "7.5"
                        /\ r.id = 1
                        /\ r.created_at = 0
                        /\ r.updated_at = 1

\* C15: a single-record save with retries = r runs the write in attempts
\* 0..r-1 only, returns True at the first attempt that succeeds, sleeps
\* only when an attempt is left, returns False when attempt r-1 fails and
\* never raises
C15_BoundedRetries ==
    [][(dbpc \in {"attempt", "sleep"} /\ call.op \in {"save_game", "save_flattened"}) =>
          /\ attempt < call.retries
          /\ sleeps = attempt
          /\ ret' # "raised"
          /\ (dbpc = "attempt" /\ dbpc' = "sleep") => ret' = "none" /\ attempt < call.retries - 1
          /\ ret' = "True" => dbpc' = "idle" /\ dbpc = "attempt"
          /\ (dbpc = "attempt" /\ dbpc' = "idle") => ret' \in {"True", "False"}
          /\ (ret' = "False" /\ flattened_or_game_has_flat) => attempt = call.retries - 1]_vars

C15_Witness ==
    /\ dbpc = "idle"
    /\ ret = "False"
    /\ attempt = 1
    /\ sleeps = 1
    /\ table = {}

\* C16 (as claimed): when a chunk after the first fails, what the earlier
\* chunks of the call wrote is committed
C16_EarlierChunksStayCommitted ==
    [][(/\ dbpc = "chunk"
        /\ chunkAt > 0
        /\ chunkAt < Len(call.records)
        /\ ret' = "raised") => table' = txTable]_vars

\* C17: connecting with retries = r opens a connection in iterations 0..r-1
\* only, sleeps once after every OperationalError, hands out the engine in
\* the iteration whose connection opened, and ends in a fatal error after r
\* failures; no save runs unless the engine was handed out
C17_StartupConnect ==
    [][/\ dbpc \in {"connect", "connect_sleep"} =>
             /\ call.op = "connect"
             /\ attempt < call.retries
             /\ ncalls = 0
             /\ sleeps = attempt
       /\ (ret' = "engine" /\ dbpc # "idle") => dbpc = "connect" /\ dbpc' = "idle"
       /\ (ret' = "RuntimeError" /\ dbpc # "fatal") =>
             /\ dbpc = "connect_sleep"
             /\ attempt = call.retries - 1
             /\ sleeps' = call.retries
       /\ dbpc = "fatal" => dbpc' = "fatal" /\ ncalls' = 0 /\ table' = {}
       /\ ncalls' > 0 => dbpc # "connect"]_vars

C17_Witness ==
    /\ dbpc = "fatal"
    /\ ret = "RuntimeError"
    /\ attempt = 1
    /\ sleeps = 2

\* C18: a batch run over the discovered games always completes and reports
\* its counts: once get_urls has returned, the program ends with the
\* "Completed!" line logged and a normal exit status.
C18_BatchRunCompletes ==
    (fetched /\ mstep = "exited") => LogCompleted \in logged /\ exitStatus = 0

\* C19: a non-positive count is rejected before any work starts: the error
\* is logged, the status is 1, and the program has not connected to the
\* database, created the table or fetched any game.
C19_NonPositiveRejected ==
    /\ argNumber <= 0 =>
          /\ ~connected /\ tableCreated = "no" /\ ~fetched
          /\ mstep \in {"validate", "exited"}
          /\ mstep = "exited" => exitStatus = 1 /\ logged = {LogPositive}
    /\ LogPositive \in logged => argNumber <= 0

C19_Witness == argNumber = 0 /\ mstep = "exited" /\ exitStatus = 1 /\ LogPositive \in logged

DigitStrings == UNION {[1..n -> {"0", "5"}] : n \in 1..MaxText}
SignedIntegers == DigitStrings \cup {<<"-">> \o d : d \in DigitStrings}
UnsignedDecimals == {a \o <<".">> \o b : a, b \in DigitStrings}
SignedDecimals == UnsignedDecimals \cup {<<"-">> \o d : d \in UnsignedDecimals}
Cleaned(t) == remove_commas(strip(t))
T(a, b, c, d) == PyText(<<a, b, c, d>>)

\* C21: _extract_numeric_value strips the string and removes its commas;
\* a signed decimal gives a float, otherwise a signed integer gives an int,
\* otherwise the original, unstripped string is returned unchanged.
C21_NumericClassification ==
    (fpc = "done" /\ fin # PyNone) =>
        /\ ~fout.raised
        /\ Cleaned(fin.val) \in SignedDecimals => fout.value.type = "float"
        /\ Cleaned(fin.val) \in SignedIntegers => fout.value.type = "int"
        /\ Cleaned(fin.val) \notin SignedDecimals \cup SignedIntegers => fout.value = fin
        /\ fin = T("5", ",", "0", "5") => fout.value = PyIntValue(505)
        /\ fin = T("5", ".", "5", "0") => fout.value = Leaf("float", <<55, 1>>)
        /\ fin = T("-", "5", ".", "0") => fout.value = Leaf("float", <<0 - 5, 0>>)
        /\ fin = T(" ", "-", "5", " ") => fout.value = PyIntValue(0 - 5)
        /\ fin = T(" ", "x", ",", " ") => fout.value = fin

C21_Witness ==
    /\ fpc = "done"
    /\ fin = T(",", "5", ",", "0")
    /\ fout = Returned(PyIntValue(50))

\* C22: _extract_numeric_value is total: for every input, the empty, the
\* whitespace-only, the sign-only and the malformed ones included, it
\* returns a value and raises nothing; what is not a number comes back as
\* the original input.
C22_NumericTotal ==
    fpc = "done" =>
        /\ ~fout.raised
        /\ fout.value.type \in {"int", "float"} \/ fout.value = fin

C22_Witness ==
    /\ fpc = "done"
    /\ fin = PyText(<<"-", "sup2">>)
    /\ fout = Returned(fin)

\* the positions of the numeric lines of the file, and the k-th of them
NumericLines == {n \in 1..Len(fin.lines) : is_decimal_line(fin.lines[n])}
KthNumericLine(k) ==
    CHOOSE n \in NumericLines : Cardinality({m \in NumericLines : m < n}) = k - 1

\* C23: load_game_ids_from_txt returns, in file order, the integer value of
\* every line that is a decimal integer and skips the blank and non-numeric
\* lines; with a limit N the result is the first N of those entries.
C23_LoaderSkipsAndLimits ==
    fpc = "done" =>
        /\ Len(fout) = IF fin.limit # NoLimit /\ fin.limit < Cardinality(NumericLines)
                         THEN fin.limit ELSE Cardinality(NumericLines)
        /\ \A k \in 1..Len(fout) : fout[k] = to_int(fin.lines[KthNumericLine(k)])
        /\ fin.lines = << <<"1", "2", "3">>, <<"a", "b", "c">>, <<"4", "5", "6">>, <<>>,
                          <<"7", "8", "9">> >> =>
              fout = IF fin.limit = NoLimit THEN <<123, 456, 789>>
                     ELSE SubSeq(<<123, 456, 789>>, 1, IF fin.limit < 3 THEN fin.limit ELSE 3)

C23_Witness ==
    /\ fpc = "done"
    /\ fin.lines = << <<"1", "2", "3">>, <<"a", "b", "c">>, <<"4", "5", "6">>, <<>>,
                      <<"7", "8", "9">> >>
    /\ fin.limit = 2
    /\ fout = <<123, 456>>

\* C24: _safe_query_selector and _safe_query_selector_all never raise an
\* Exception: when the element is absent, or the underlying query (or the
\* read of the text) raises any Exception, they return the empty result,
\* None respectively the empty list.
C24_SafeSelectorsNeverRaise ==
    fpc = "done" =>
        LET empty == IF fin.fn = "one" THEN PyNone ELSE PyList(<<>>)
            failed == \/ fin.query.raised
                      \/ fin.fn = "one" /\ fin.query.value = "element" /\ fin.text.raised
        IN /\ fout.raised => fout.value \in NotExceptions
           /\ (failed /\ ~fout.raised) => fout.value = empty
           /\ (fin.fn = "one" /\ ~fin.query.raised /\ fin.query.value = "none") =>
                 fout = Returned(PyNone)
           /\ (fin.fn = "all" /\ ~fin.query.raised) => fout = fin.query

C24_Witness ==
    /\ fpc = "done"
    /\ fin.fn = "one"
    /\ fin.query = Returned("element")
    /\ fin.text = Raised("TimeoutError")
    /\ fout = Returned(PyNone)

\* the document can be read into a Game
CompleteDocument(doc) ==
    /\ doc # NotWellFormed
    /\ doc.title # Missing
    /\ doc.year = PyText(<<"1", "9", "9", "5">>)
    /\ doc.thumbnail \notin {Missing, PyNone}
    /\ doc.rank = PyText(<<"1">>)

\* C25: fetch_game_data returns None and raises nothing on a non-200 HTTP
\* status, a request timeout, a client connection error, or a parse or
\* validation failure of the response; it returns a Game only when both
\* the fetch and the parse succeeded.
C25_FetchGameDataReturnsNone ==
    fpc = "done" =>
        LET fetch_failed == \/ fin.get.raised
                            \/ fin.get.value # 200
                            \/ fin.text.raised /\ fin.text.value \in {"TimeoutError", "ClientError"}
            fetched_text == ~fin.get.raised /\ fin.get.value = 200 /\ ~fin.text.raised
        IN /\ fetch_failed => fout = Returned(PyNone)
           /\ (fetched_text /\ ~CompleteDocument(fin.text.value)) => fout = Returned(PyNone)
           /\ (~fout.raised /\ fout.value # PyNone) =>
                 /\ fetched_text /\ CompleteDocument(fin.text.value)
                 /\ fout.value.type = "Game"
                 /\ fout.value.year = 1995 /\ fout.value.rank = 1
           /\ (fetched_text /\ CompleteDocument(fin.text.value)) => fout.value.type = "Game"
           /\ fout.raised => ~fin.get.raised /\ fin.text = Raised("UnicodeDecodeError")

C25_Witness ==
    /\ fpc = "done"
    /\ fin.get = Returned(200)
    /\ ~fin.text.raised
    /\ fin.text.value # NotWellFormed
    /\ fin.text.value.rank # PyText(<<"1">>)
    /\ fin.text.value.year = PyText(<<"1", "9", "9", "5">>)
    /\ fout = Returned(PyNone)

\* C26: the transport is acquired once and released at shutdown: a run of
\* main() that got as far as creating the extractor ends with close()
\* called, which the line logged right after it in the finally block
\* records, whether the loop completed or raised.
C26_ClosedAtShutdown ==
    (fetched /\ mstep = "exited") => LogClosed \in logged

\* C27: get_complete_game_data flattens only after all five section tasks
\* have terminated: the record is built and returned in a step that finds
\* every section done, a step of one section (its failure included) leaves
\* the other sections where they are, and a section that is done stays so.
C27_FlattenAfterAllSections ==
    [][/\ epc' = "returned" => \A s \in SectionIds : spc[s] = "done" /\ spc'[s] = "done"
       /\ erec' # erec => epc = "gather" /\ \A s \in SectionIds : spc[s] = "done"
       /\ epc = "gather" =>
             \A s, t \in SectionIds :
                (s # t /\ spc'[s] # spc[s]) => spc'[t] = spc[t]
       /\ \A s \in SectionIds : spc[s] = "done" => spc'[s] = "done"]_vars

C27_Witness ==
    /\ epc = "returned"
    /\ erec # <<>>
    /\ \E s, t \in SectionIds : handled[s] /\ ~handled[t] /\ Len(navs[s]) < Len(navs[t])

\* C28: retried writes have at most one effect: within one save call an
\* attempt that failed changes no row, so that the table changes only in
\* the attempt that returns True, which is the last one of the call, and a
\* call that returns False leaves the table as it was.
C28_FailedAttemptChangesNoRow ==
    [][(dbpc = "attempt" /\ call.op \in {"save_game", "save_flattened"} /\ ret' # "True") =>
           table' = table]_vars

\* what url number i ended with on its own: the error entry of its
\* exception, or the record of its five section results
OwnOutcome(i) ==
    IF i \in raised THEN << <<"error", PyStr(ExcText(urls[i]))>> >>
    ELSE complete_game_data(urls[i], gathered[i])

DistinctUrls == \A i, j \in Workers : urls[i] = urls[j] => i = j

\* C29: for pairwise distinct urls the outcome stored for a url is a
\* function of that url's own section results (or of its own exception):
\* whatever the order in which the workers ran and finished, and whatever
\* the other urls ended with, the mapping holds for each collected url its
\* own outcome and nothing else, so two runs that agree on a url's own
\* results store the same outcome for it.
C29_OutcomeDependsOnOwnUrl ==
    DistinctUrls =>
        /\ Len(results) = ncollected
        /\ \A n \in 1..ncollected :
              /\ DictHas(results, urls[doneQueue[n]])
              /\ DictGet(results, urls[doneQueue[n]]) = OwnOutcome(doneQueue[n])

C29_Witness ==
    /\ mainpc = "returned"
    /\ DistinctUrls
    /\ doneQueue = <<2, 1>>
    /\ raised = {2}
    /\ IsRecord(DictGet(results, urls[1]))
    /\ IsErrorEntry(DictGet(results, urls[2]))

\* C30: the result mapping is written only by the collecting loop, one
\* entry per completed worker, namely the pair that worker returned; no
\* step of a worker changes it; it is returned only after every worker has
\* completed and been collected, and it does not change afterwards.
C30_ResultsWrittenByCollectorOnly ==
    [][/\ results' # results =>
             /\ mainpc = "collect" /\ mainpc' = "collect"
             /\ ncollected' = ncollected + 1
             /\ wpc' = wpc /\ taskResult' = taskResult /\ doneQueue' = doneQueue
             /\ LET i == doneQueue[ncollected + 1]
                IN /\ wpc[i] = "done"
                   /\ results' = DictSet(results, urls[i], taskResult[i].data)
       /\ ncollected' # ncollected => results' # results \/ Len(urls) > Len(results')
       /\ mainpc' = "returned" =>
             /\ \A i \in Workers : wpc[i] = "done"
             /\ ncollected = Len(urls)
             /\ results' = results]_vars

C30_Witness ==
    /\ mainpc = "returned"
    /\ Len(urls) = 2
    /\ Len(results) = 2
    /\ results[1][1] = urls[2]
    /\ raised = {}

\* C31: every flat record returned by get_complete_game_data holds the key
\* "url" exactly once, with the input url as its value, whichever sections
\* failed: the entity key is read from that entry.
C31_RecordCarriesUrl ==
    recpc = "done" =>
        /\ Cardinality({n \in 1..Len(recOut.data) : recOut.data[n][1] = "url"}) = 1
        /\ \A n \in 1..Len(recOut.data) :
              recOut.data[n][1] = "url" => recOut.data[n][2] = PyStr(recUrl)
        /\ dict_get(recOut.data, "url", PyStr("")) = PyStr(recUrl)

C31_Witness ==
    /\ recpc = "done"
    /\ \A s \in 1..NumSections : recCodes[s] = "exc"
    /\ recOut.data = << <<"url", PyStr(recUrl)>> >>

\* the save_game call that is running inserts a new bgg_id under the url
\* of a row of the table
UrlTaken ==
    /\ call.op = "save_game"
    /\ call.game.title # SqlNull
    /\ \A r \in table : r.bgg_id # call.bgg_id
    /\ \E r \in table : r.url = call.game.url

\* C32: no two rows of the table share a url, and a save_game whose bgg_id
\* is new while its url is the url of an existing row fails at every
\* attempt, leaves the table as it is and returns False.
C32_UrlStaysUnique ==
    /\ [](\A r1, r2 \in table : r1.url = r2.url => r1 = r2)
    /\ [][(dbpc = "attempt" /\ UrlTaken) =>
             /\ table' = table
             /\ ret' \in {"none", "False"}
             /\ dbpc' = "idle" => ret' = "False" /\ attempt = call.retries - 1]_vars

C32_Witness ==
    /\ dbpc = "attempt"
    /\ UrlTaken
    /\ attempt = 1
    /\ sleeps = 1
    /\ Cardinality(table) = 1

\* the workers that hold a permit: from the moment a permit is taken for
\* them (by their own acquire, or by the release that hands it to the first
\* waiter) until they leave the gated block
Holders == {i \in Workers : wpc[i] \in {"woken", "entered", "gathering"}}

\* C33: the semaphore conserves its permits: the permits taken are exactly
\* those of the workers inside the gated block, a worker that leaves it,
\* by a return or through the exception handler, gives its permit back
\* (to the counter or to the first waiter), and when the batch returns all
\* `concurrency` permits are free and nobody waits.
C33_PermitsConserved ==
    /\ [](/\ semValue \in 0..concurrency
          /\ concurrency - semValue = Cardinality(Holders)
          /\ \A n \in 1..Len(waiters) : wpc[waiters[n]] \in {"waiting", "woken"}
          /\ mainpc = "returned" => semValue = concurrency /\ waiters = <<>>)
    /\ [][\A i \in Workers :
            (wpc[i] \in {"entered", "gathering"} /\ wpc'[i] = "done") =>
               \/ semValue' = semValue + 1 /\ \A j \in Workers : wpc[j] = "waiting" => wpc'[j] = "waiting"
               \/ semValue' = semValue /\ \E j \in Workers : wpc[j] = "waiting" /\ wpc'[j] = "woken"]_vars

C33_Witness ==
    /\ mainpc = "returned"
    /\ Len(urls) = 3
    /\ concurrency = 2
    /\ raised # {}
    /\ raised # Workers
    /\ semValue = 2

\* C34: in a single-record save the delay lies only between two attempts:
\* a sleep is entered only from a failed attempt that is not the last, it
\* is always followed by the next attempt, and a call that returns after
\* k attempts (attempt = k - 1, successful or not) has slept k - 1 times,
\* the returning step included.
C34_DelayOnlyBetweenAttempts ==
    [][(call.op \in {"save_game", "save_flattened"}) =>
          /\ (dbpc = "attempt" /\ dbpc' = "idle") =>
                 /\ sleeps' = sleeps
                 /\ sleeps' = (attempt + 1) - 1
          /\ (dbpc = "attempt" /\ dbpc' = "sleep") =>
                 /\ ret' = "none"
                 /\ sleeps' = sleeps
                 /\ attempt + 1 < call.retries
          /\ dbpc = "sleep" =>
                 /\ dbpc' = "attempt"
                 /\ sleeps' = sleeps + 1
                 /\ attempt' = attempt + 1
                 /\ table' = table]_vars

C34_Witness ==
    /\ dbpc = "idle"
    /\ ret = "True"
    /\ attempt = 1
    /\ sleeps = 1
    /\ table # {}

\* the save_flattened_game_data call that is running has a record whose
\* url yields no BGG id
NoBggId ==
    /\ call.op = "save_flattened"
    /\ DictHas(call.game_data, "url")
    /\ LET bgg_id == extract_bgg_id(DictGet(call.game_data, "url").val[1])
       IN ~bgg_id.found \/ bgg_id.id = 0

\* C35: when no BGG id can be derived from the url of the record,
\* save_flattened_game_data returns False in its first attempt: no second
\* attempt, no sleep, and the table is left as it is.
C35_NoIdReturnsFalseAtOnce ==
    [][(dbpc = "attempt" /\ NoBggId) =>
          /\ attempt = 0
          /\ dbpc' = "idle"
          /\ ret' = "False"
          /\ sleeps' = 0
          /\ table' = table
          /\ nextId' = nextId]_vars

\* such a call, allowed two attempts, is in its first and only attempt on
\* a table that holds a row
C35_Witness ==
    /\ dbpc = "attempt"
    /\ NoBggId
    /\ call.retries = 2
    /\ attempt = 0
    /\ table # {}

\* the batches of a list, one after the other
RECURSIVE Concat(_)
Concat(batches) ==
    IF Len(batches) = 0 THEN <<>> ELSE Head(batches) \o Concat(Tail(batches))

\* C36: the batches executed so far, put end to end, are the records up to
\* the loop position, in input order (so each record lies in exactly one
\* batch); every batch holds batch_size records, except that the one that
\* reaches the end of the list may hold fewer, and none is empty; at commit
\* all the records have been executed, in ceil(len / batch_size) batches;
\* and for an empty input no transaction is opened and nothing is executed.
C36_ConsecutiveChunks ==
    fpc \in {"loop", "done"} =>
        /\ fout.records = build_records(fin.games)
        /\ Concat(fout.executed) =
              SubSeq(fout.records, 1,
                     IF fout.i < Len(fout.records) THEN fout.i ELSE Len(fout.records))
        /\ fout.i = Len(fout.executed) * fin.batch_size
        /\ \A k \in 1..Len(fout.executed) :
              /\ Len(fout.executed[k]) \in 1..fin.batch_size
              /\ Len(fout.executed[k]) < fin.batch_size =>
                    /\ k = Len(fout.executed)
                    /\ fout.i >= Len(fout.records)
        /\ fout.tx = "committed" =>
              /\ Concat(fout.executed) = fout.records
              /\ (Len(fout.executed) - 1) * fin.batch_size < Len(fout.records)
              /\ Len(fout.records) <= Len(fout.executed) * fin.batch_size
        /\ Len(fin.games) = 0 <=> fout.tx = "none"
        /\ fout.tx = "none" => fpc = "done" /\ fout.executed = <<>>

C36_Witness ==
    /\ fpc = "done"
    /\ fout.tx = "committed"
    /\ Len(fout.records) = 3
    /\ fin.batch_size = 2
    /\ Len(fout.executed) = 2
    /\ Len(fout.executed[2]) = 1
    /\ fout.records[1] # fout.records[2]

\* the game names on page p of the site
NamesOn(site, p) == {site[p].links[k].text : k \in 1..Len(site[p].links)}

\* C37: get_urls(n) holds at most n entries at any time; the pages it has
\* requested are 1, 2, ..., k in this order with k <= ceil(n / 100); it
\* requests a page, or takes a link, only while fewer than n entries are
\* collected; every entry comes from a requested page; and a page whose
\* request failed is the only thing skipped: the games of every other page
\* the loop has passed are all collected, and unless n entries were
\* reached every one of the ceil(n / 100) pages was requested.
C37_GetUrlsBounded ==
    fpc \in {"loop", "links", "done"} =>
        /\ Len(fout.games) <= fin.num_games
        /\ \A k \in 1..Len(fout.requested) : fout.requested[k] = k
        /\ Len(fout.requested) * GAMES_PER_PAGE < fin.num_games + GAMES_PER_PAGE
        /\ (fpc = "loop" /\ fin.num_games > 0) => Len(fout.games) < fin.num_games
        /\ DictKeys(fout.games) \subseteq
              UNION {NamesOn(fin.site, p) : p \in 1..Len(fout.requested)}
        /\ \A p \in 1..(fout.page_num - 1) :
              /\ p \in 1..Len(fout.requested)
              /\ NamesOn(fin.site, p) \subseteq DictKeys(fout.games)
        /\ fpc = "done" =>
              \/ Len(fout.games) = fin.num_games
              \/ /\ Len(fout.requested) = fout.pages_needed
                 /\ \A p \in 1..fout.pages_needed :
                       NamesOn(fin.site, p) \subseteq DictKeys(fout.games)

\* 101 games were asked for, the first page failed, the second was
\* requested all the same and its 100 games are the result
C37_Witness ==
    /\ fpc = "done"
    /\ fin.num_games = GAMES_PER_PAGE + 1
    /\ fin.site[1] = PageFailed
    /\ fout.requested = <<1, 2>>
    /\ Len(fout.games) = GAMES_PER_PAGE

====
